---- MODULE Spec2Model ----
(***************************************************************************)
(* A model of the OpenAPI ingestion pipeline of alchemy-gen: the reader    *)
(* (parser/reader.ts), the validator (parser/validator.ts), the reference  *)
(* resolver with its security gate (parser/ref-resolver.ts), the extractor *)
(* (parser/extractor.ts), the per-file pipeline and its two batch policies *)
(* (parser/index.ts) and the CLI handler that starts code generation       *)
(* (src/index.ts).                                                         *)
(*                                                                         *)
(* Strings that the code inspects character by character (reference        *)
(* strings, URLs, hostnames, the openapi version) are sequences of         *)
(* one-character strings, so that startsWith / endsWith / includes /       *)
(* toLowerCase and URL parsing are computed and not assumed.               *)
(***************************************************************************)
EXTENDS Integers, Sequences, FiniteSets, TLC

VARIABLES
    \* ---- resolveReferences, one call (SpecResolve) ----
    rdoc,       \* the document handed to resolveReferences
    robj,       \* the object that `document` refers to, as it is now
    ropts,      \* its RefResolutionOptions
    rpc,        \* position in resolveReferences: start, gate, resolve, done
    rrefs,      \* referencePaths, as extracted before resolution
    rgateIdx,   \* index of the next external reference the gate loop validates
    rgated,     \* the references handed to validateExternalUrl so far, in order
    rfetchIdx,  \* index of the next external resource RefParser reads
    rfetched,   \* the external resources RefParser has started to read, in order
    rresult,    \* the Either the call ends with (tag "None" while running)
    \* ---- parseOpenApiFile, the batch functions and the CLI handler (Spec) ----
    files,      \* the input files, in input order
    popts,      \* the ParseOptions every pipeline of the run is given
    mode,       \* "failfast" (parseOpenApiFiles), "collect"
                \* (parseOpenApiFilesCollectErrors) or "cli" (generateHandler)
    pipe,       \* per input position: the state of that file's pipeline
    batch,      \* the Either the batch call ends with (tag "None" while running)
    cli,        \* the CLI handler: its position, the output path, the artifacts
    \* ---- validateOpenApiDocument, one call (SpecValidate) ----
    vcontent,   \* the FileContent handed to validateOpenApiDocument
    vpc,        \* position: basic, version, schema, done
    verrors,    \* the errors array
    vresult,    \* the ValidationResult (tag "None" while running)
    \* ---- the naming helpers of the generators (SpecNames) ----
    nstr,       \* the string to convert
    npc,        \* position: apply, again, done
    nout,       \* the results of the helpers on nstr
    nagain,     \* the results of the helpers on their own results
    \* ---- HttpApiGenerator.generate, two runs on one IR (SpecGenerate) ----
    gdata,      \* the ExtractedApiData
    grun,       \* the number of the run
    gpc,        \* position: mkdir, schemas, groups, finished, failed
    ggroups,    \* apiGroups, the entries of the Map in insertion order
    gidx,       \* the index of the for loop over apiGroups
    gdir,       \* the output directory: a set of [name, content]
    glog,       \* the names this run has written, in order
    gfirst,     \* the directory and the log of the first run, once finished
    \* ---- readOpenApiFile, one call (SpecRead) ----
    dfile,      \* the file at filePath
    dpc,        \* position: exists, format, read, parse, done
    dops,       \* the file-system and parser operations performed, in order
    dresult,    \* the Either the call ends with
    \* ---- one call of a function of the resolver, the extractor, the ----
    \* ---- generators or the error utilities                          ----
    cin,        \* the argument of the call
    cpc,        \* position: call, done (and the steps between, where there are)
    cout        \* what the call has produced so far

rvars == <<rdoc, robj, ropts, rpc, rrefs, rgateIdx, rgated, rfetchIdx, rfetched, rresult>>

pvars == <<files, popts, mode, pipe, batch, cli>>

vvars == <<vcontent, vpc, verrors, vresult>>

nvars == <<nstr, npc, nout, nagain>>

gvars == <<gdata, grun, gpc, ggroups, gidx, gdir, glog, gfirst>>

dvars == <<dfile, dpc, dops, dresult>>

cvars == <<cin, cpc, cout>>

\* the variables of the calls of single functions
xvars == <<vvars, nvars, gvars, dvars, cvars>>

vars == <<rvars, pvars, xvars>>

-----------------------------------------------------------------------------
(* Bounds of the model. *)

\* longest list of $ref occurrences in one document
MaxRefs == 2

\* the longest parameter list of a document of the extraction universe
MaxParams == 2

\* the largest batch of input files
MaxFiles == 2

-----------------------------------------------------------------------------
(* String helpers (JavaScript String.prototype methods on char sequences). *)

Min(S) == CHOOSE x \in S : \A y \in S : x <= y

StartsWith(s, p) ==
    /\ Len(p) <= Len(s)
    /\ SubSeq(s, 1, Len(p)) = p

EndsWith(s, p) ==
    /\ Len(p) <= Len(s)
    /\ SubSeq(s, Len(s) - Len(p) + 1, Len(s)) = p

Includes(s, p) ==
    \E i \in 1..(Len(s) - Len(p) + 1) : SubSeq(s, i, i + Len(p) - 1) = p

UpperChars == <<"A", "B", "C", "D", "E", "F", "G", "H", "I", "J", "K", "L", "M",
                "N", "O", "P", "Q", "R", "S", "T", "U", "V", "W", "X", "Y", "Z">>
LowerChars == <<"a", "b", "c", "d", "e", "f", "g", "h", "i", "j", "k", "l", "m",
                "n", "o", "p", "q", "r", "s", "t", "u", "v", "w", "x", "y", "z">>
DigitChars == {"0", "1", "2", "3", "4", "5", "6", "7", "8", "9"}

IsUpper(c) == \E i \in 1..Len(UpperChars) : UpperChars[i] = c
IsLower(c) == \E i \in 1..Len(LowerChars) : LowerChars[i] = c
IsAlpha(c) == IsUpper(c) \/ IsLower(c)

ToLowerChar(c) ==
    IF IsUpper(c)
    THEN LowerChars[CHOOSE i \in 1..Len(UpperChars) : UpperChars[i] = c]
    ELSE c

ToLowerCase(s) == [i \in 1..Len(s) |-> ToLowerChar(s[i])]

\* index of the first character of s at or after position from that is in C,
\* Len(s) + 1 when there is none
FirstIn(s, C, from) ==
    LET I == {i \in from..Len(s) : s[i] \in C}
    IN  IF I = {} THEN Len(s) + 1 ELSE Min(I)

\* index of the last character of s that is in C, 0 when there is none
LastIn(s, C) ==
    LET I == {i \in 1..Len(s) : s[i] \in C}
    IN  IF I = {} THEN 0 ELSE CHOOSE x \in I : \A y \in I : y <= x

-----------------------------------------------------------------------------
(* new url.URL(refUrl) with no base: the WHATWG URL parser, as far as the   *)
(* gate reads its result (protocol and hostname).                          *)

SchemeTailChars == DigitChars \cup {"+", "-", "."}

\* number of leading characters that form a scheme; the scheme start state
\* wants a letter, the scheme state letters, digits, "+", "-" and "."
SchemeLen(s) ==
    IF Len(s) = 0 \/ ~IsAlpha(s[1])
    THEN 0
    ELSE LET stop == {i \in 2..Len(s) : ~(IsAlpha(s[i]) \/ s[i] \in SchemeTailChars)}
         IN  IF stop = {} THEN Len(s) ELSE Min(stop) - 1

SpecialSchemes == {<<"h", "t", "t", "p">>, <<"h", "t", "t", "p", "s">>,
                   <<"f", "t", "p">>, <<"w", "s">>, <<"w", "s", "s">>,
                   <<"f", "i", "l", "e">>}

FileScheme == <<"f", "i", "l", "e">>

ForbiddenHostChars == {" ", "#", "%", "/", ":", "<", ">", "?", "@", "[", "\\", "]", "^", "|"}

\* the host parser: an IPv6 literal keeps its brackets in the serialised host,
\* a domain is lower-cased and may hold no forbidden host code point
ParseHost(h) ==
    IF Len(h) > 0 /\ h[1] = "["
    THEN IF h[Len(h)] = "]" /\ Len(h) > 2
         THEN [ok |-> TRUE, host |-> ToLowerCase(h)]
         ELSE [ok |-> FALSE, host |-> <<>>]
    ELSE IF \E i \in 1..Len(h) : h[i] \in ForbiddenHostChars
         THEN [ok |-> FALSE, host |-> <<>>]
         ELSE [ok |-> TRUE, host |-> ToLowerCase(h)]

\* index of the first character of r that is no slash, Len(r) + 1 when none
SkipSlashes(r) ==
    IF \E i \in 1..Len(r) : r[i] \notin {"/", "\\"}
    THEN Min({i \in 1..Len(r) : r[i] \notin {"/", "\\"}})
    ELSE Len(r) + 1

\* authority of a URL whose rest (after "scheme:") is r, starting at index a0:
\* it ends at "/", "\", "?" or "#", credentials end at the last "@", the port
\* starts at the first ":" outside an IPv6 literal
AuthorityHost(r, a0) ==
    LET a1   == FirstIn(r, {"/", "\\", "?", "#"}, a0) - 1
        auth == SubSeq(r, a0, a1)
        at   == LastIn(auth, {"@"})
        hp   == SubSeq(auth, at + 1, Len(auth))
        hEnd == IF Len(hp) > 0 /\ hp[1] = "["
                THEN FirstIn(hp, {"]"}, 1)
                ELSE FirstIn(hp, {":"}, 1) - 1
        port == SubSeq(hp, hEnd + 1, Len(hp))
    IN  [host   |-> SubSeq(hp, 1, IF hEnd > Len(hp) THEN Len(hp) ELSE hEnd),
         portOk |-> \/ port = <<>>
                    \/ /\ port[1] = ":"
                       /\ \A i \in 2..Len(port) : port[i] \in DigitChars]

\* [ok, protocol, hostname]: ok is FALSE where the constructor throws.  A
\* special scheme other than file skips every slash before the authority and
\* wants a host; any other scheme has an authority only after "//"
ParseUrl(s) ==
    LET n == SchemeLen(s)
    IN  IF n = 0 \/ n = Len(s) \/ s[n + 1] # ":"
        THEN [ok |-> FALSE, protocol |-> <<>>, hostname |-> <<>>]
        ELSE LET scheme == ToLowerCase(SubSeq(s, 1, n))
                 rest   == SubSeq(s, n + 2, Len(s))
                 proto  == Append(scheme, ":")
             IN  IF scheme \in SpecialSchemes \ {FileScheme}
                 THEN LET ah == AuthorityHost(rest, SkipSlashes(rest))
                          ph == ParseHost(ah.host)
                      IN  IF ah.host = <<>> \/ ~ah.portOk \/ ~ph.ok
                          THEN [ok |-> FALSE, protocol |-> <<>>, hostname |-> <<>>]
                          ELSE [ok |-> TRUE, protocol |-> proto, hostname |-> ph.host]
                 ELSE IF StartsWith(rest, <<"/", "/">>)
                      THEN LET ah == AuthorityHost(rest, 3)
                           IN  [ok |-> TRUE, protocol |-> proto,
                                hostname |-> IF scheme = FileScheme
                                             THEN ToLowerCase(ah.host)
                                             ELSE ah.host]
                      ELSE [ok |-> TRUE, protocol |-> proto, hostname |-> <<>>]

-----------------------------------------------------------------------------
(* validateExternalUrl: the security gate of full mode.                    *)

HttpProtocols == {<<"h", "t", "t", "p", ":">>, <<"h", "t", "t", "p", "s", ":">>}

\* the hostname test of the gate, on the lower-cased hostname
IsBlockedHostname(hostname) ==
    \/ hostname = <<"l", "o", "c", "a", "l", "h", "o", "s", "t">>
    \/ hostname = <<"1", "2", "7", ".", "0", ".", "0", ".", "1">>
    \/ hostname = <<":", ":", "1">>
    \/ StartsWith(hostname, <<"1", "9", "2", ".", "1", "6", "8", ".">>)
    \/ StartsWith(hostname, <<"1", "0", ".">>)
    \/ StartsWith(hostname, <<"1", "7", "2", ".", "1", "6", ".">>)
    \/ StartsWith(hostname, <<"1", "7", "2", ".", "1", "7", ".">>)
    \/ StartsWith(hostname, <<"1", "7", "2", ".", "1", "8", ".">>)
    \/ StartsWith(hostname, <<"1", "7", "2", ".", "1", "9", ".">>)
    \/ StartsWith(hostname, <<"1", "7", "2", ".", "2">>)
    \/ StartsWith(hostname, <<"1", "7", "2", ".", "3", "0", ".">>)
    \/ StartsWith(hostname, <<"1", "7", "2", ".", "3", "1", ".">>)
    \/ StartsWith(hostname, <<"1", "6", "9", ".", "2", "5", "4", ".">>)
    \/ hostname = <<"0", ".", "0", ".", "0", ".", "0">>
    \/ Includes(hostname, <<".", "l", "o", "c", "a", "l">>)

\* options.allowedDomains || []
AllowedDomainsOf(options) ==
    IF options.hasAllowedDomains THEN options.allowedDomains ELSE <<>>

\* IsAllowed with the separating dot forgotten: hostname.endsWith(domain)
IsAllowedSuffix(hostname, allowedDomains) ==
    \E i \in 1..Len(allowedDomains) : EndsWith(hostname, allowedDomains[i])

\* allowedDomains.some(domain => hostname === domain || hostname.endsWith(`.${domain}`))
IsAllowed(hostname, allowedDomains) ==
    \E i \in 1..Len(allowedDomains) :
        \/ hostname = allowedDomains[i]
        \/ EndsWith(hostname, <<".">> \o allowedDomains[i])

\* ValidateExternalUrl with the protocol test left out
ValidateExternalUrlAnyProtocol(refUrl, options) ==
    LET parsedUrl == ParseUrl(refUrl)
        hostname  == ToLowerCase(parsedUrl.hostname)
        allowed   == AllowedDomainsOf(options)
    IN  IF ~parsedUrl.ok THEN "InvalidUrl"
        ELSE IF IsBlockedHostname(hostname) THEN "PrivateAddress"
        ELSE IF Len(allowed) > 0 /\ ~IsAllowed(hostname, allowed) THEN "DomainNotAllowed"
        ELSE "Ok"

\* "Ok", or the kind of the Error the gate fails with (the kind stands for the
\* message: "Invalid URL ...", "Unsafe protocol ...", "Private/local address
\* not allowed ...", "Domain ... not in allowed domains list")
ValidateExternalUrl(refUrl, options) ==
    LET parsedUrl == ParseUrl(refUrl)
        hostname  == ToLowerCase(parsedUrl.hostname)
        allowed   == AllowedDomainsOf(options)
    IN  IF ~parsedUrl.ok THEN "InvalidUrl"
        ELSE IF parsedUrl.protocol \notin HttpProtocols THEN "UnsafeProtocol"
        ELSE IF IsBlockedHostname(hostname) THEN "PrivateAddress"
        ELSE IF Len(allowed) > 0 /\ ~IsAllowed(hostname, allowed) THEN "DomainNotAllowed"
        ELSE "Ok"

-----------------------------------------------------------------------------
(* Reference classification.                                               *)

IsInternalReference(ref) == StartsWith(ref, <<"#", "/">>)

\* an isExternalReference that knows absolute URLs only
IsExternalReferenceUrlOnly(ref) == Includes(ref, <<":", "/", "/">>)

IsExternalReference(ref) == ~IsInternalReference(ref)

Range(seq) == {seq[i] : i \in 1..Len(seq)}

ClassifyReferences(referencePaths) ==
    [internal |-> SelectSeq(referencePaths, IsInternalReference),
     external |-> SelectSeq(referencePaths, IsExternalReference)]

-----------------------------------------------------------------------------
(* The naming helpers of the generators (generator/schema-generator.ts,    *)
(* generator/endpoint-generator.ts, generator/http-api-generator.ts).      *)

ToUpperChar(c) ==
    IF IsLower(c)
    THEN UpperChars[CHOOSE i \in 1..Len(LowerChars) : LowerChars[i] = c]
    ELSE c

\* the characters of the model that \s matches
WhitespaceChars == {" "}

\* str.replace(/([a-z])([A-Z])/g, "$1" + sep + "$2"): no character is both a
\* lower-case and an upper-case letter, so the matches never overlap
RECURSIVE ReplaceCamelBoundary(_, _)
ReplaceCamelBoundary(str, sep) ==
    IF Len(str) < 2 THEN str
    ELSE IF IsLower(str[1]) /\ IsUpper(str[2])
    THEN <<str[1], sep>> \o ReplaceCamelBoundary(Tail(str), sep)
    ELSE <<str[1]>> \o ReplaceCamelBoundary(Tail(str), sep)

\* length of the longest prefix of str made of characters of D
RECURSIVE RunLength(_, _)
RunLength(str, D) ==
    IF str = <<>> \/ str[1] \notin D THEN 0 ELSE 1 + RunLength(Tail(str), D)

\* str.split(/[D]+/): the pieces between the maximal runs of characters of D,
\* empty pieces at the ends included
RECURSIVE SplitOnRuns(_, _)
SplitOnRuns(str, D) ==
    IF \A i \in 1..Len(str) : str[i] \notin D
    THEN <<str>>
    ELSE LET i == FirstIn(str, D, 1)
             j == i + RunLength(SubSeq(str, i, Len(str)), D)
         IN  <<SubSeq(str, 1, i - 1)>> \o SplitOnRuns(SubSeq(str, j, Len(str)), D)

\* str.replace(/[D]+/g, sep)
RECURSIVE ReplaceRuns(_, _, _)
ReplaceRuns(str, D, sep) ==
    IF str = <<>> THEN <<>>
    ELSE IF str[1] \in D
    THEN <<sep>> \o ReplaceRuns(SubSeq(str, RunLength(str, D) + 1, Len(str)), D, sep)
    ELSE <<str[1]>> \o ReplaceRuns(Tail(str), D, sep)

\* word.charAt(0).toUpperCase() + word.slice(1)
Capitalize(word) ==
    IF word = <<>> THEN <<>> ELSE <<ToUpperChar(word[1])>> \o Tail(word)

\* word.charAt(0).toUpperCase() + word.slice(1).toLowerCase()
CapitalizeLowerRest(word) ==
    IF word = <<>> THEN <<>> ELSE <<ToUpperChar(word[1])>> \o ToLowerCase(Tail(word))

\* words.join("")
RECURSIVE Join(_)
Join(words) ==
    IF words = <<>> THEN <<>> ELSE Head(words) \o Join(Tail(words))

PascalDelimiters == {"-", "_"} \cup WhitespaceChars
KebabDelimiters  == {"_"} \cup WhitespaceChars

\* SchemaGenerator.toPascalCase
SchemaGenerator_toPascalCase(str) ==
    LET words == SplitOnRuns(ReplaceCamelBoundary(str, " "), PascalDelimiters)
    IN  Join([k \in 1..Len(words) |-> Capitalize(words[k])])

\* a toPascalCase that lower-cases the rest of every word
ToPascalCaseLowerRest(str) ==
    LET words == SplitOnRuns(ReplaceCamelBoundary(str, " "), PascalDelimiters)
    IN  Join([k \in 1..Len(words) |-> CapitalizeLowerRest(words[k])])

\* EndpointGenerator.toPascalCase
EndpointGenerator_toPascalCase(str) ==
    LET words == SplitOnRuns(ReplaceCamelBoundary(str, " "), PascalDelimiters)
    IN  Join([k \in 1..Len(words) |-> Capitalize(words[k])])

\* EndpointGenerator.toKebabCase
EndpointGenerator_toKebabCase(str) ==
    ToLowerCase(ReplaceRuns(ReplaceCamelBoundary(str, "-"), KebabDelimiters, "-"))

\* HttpApiGenerator.toPascalCase
HttpApiGenerator_toPascalCase(str) ==
    LET words == SplitOnRuns(ReplaceCamelBoundary(str, " "), PascalDelimiters)
    IN  Join([k \in 1..Len(words) |-> Capitalize(words[k])])

\* HttpApiGenerator.toKebabCase
HttpApiGenerator_toKebabCase(str) ==
    ToLowerCase(ReplaceRuns(ReplaceCamelBoundary(str, "-"), KebabDelimiters, "-"))

\* the five helpers applied to five strings
Names(a, b, c, d, e) ==
    [schemaPascal   |-> SchemaGenerator_toPascalCase(a),
     endpointPascal |-> EndpointGenerator_toPascalCase(b),
     httpApiPascal  |-> HttpApiGenerator_toPascalCase(c),
     endpointKebab  |-> EndpointGenerator_toKebabCase(d),
     httpApiKebab   |-> HttpApiGenerator_toKebabCase(e)]

NoNames ==
    [schemaPascal |-> <<>>, endpointPascal |-> <<>>, httpApiPascal |-> <<>>,
     endpointKebab |-> <<>>, httpApiKebab |-> <<>>]

-----------------------------------------------------------------------------
(* JavaScript values of untyped document fields.                           *)

JsUndefined == [t |-> "undefined", b |-> FALSE, s |-> <<>>]
JsBool(b)   == [t |-> "boolean", b |-> b, s |-> <<>>]
JsStr(s)    == [t |-> "string", b |-> FALSE, s |-> s]
\* the number 1
JsNum       == [t |-> "number", b |-> FALSE, s |-> <<>>]

\* ToBoolean: undefined, false and the empty string are falsy
Truthy(v) ==
    \/ v.t = "boolean" /\ v.b
    \/ v.t = "string" /\ v.s # <<>>
    \/ v.t = "number"

\* a || b
JsOr(a, b) == IF Truthy(a) THEN a ELSE b

\* an Either, and the value of a variable that holds none yet
None     == [tag |-> "None"]
Left(e)  == [tag |-> "Left", error |-> e]
Right(v) == [tag |-> "Right", value |-> v]

-----------------------------------------------------------------------------
(* Reference strings and documents the model draws its inputs from.        *)

Url(scheme, host, port, path) == scheme \o <<":", "/", "/">> \o host \o port \o path

S_http  == <<"h", "t", "t", "p">>
S_https == <<"h", "t", "t", "p", "s">>
S_HTTP  == <<"H", "T", "T", "P">>
S_ftp   == <<"f", "t", "p">>

H_localhost     == <<"l", "o", "c", "a", "l", "h", "o", "s", "t">>
H_LocalHost     == <<"L", "o", "c", "a", "l", "H", "o", "s", "t">>
H_loopback4     == <<"1", "2", "7", ".", "0", ".", "0", ".", "1">>
H_loopback6     == <<"[", ":", ":", "1", "]">>
H_192_168       == <<"1", "9", "2", ".", "1", "6", "8", ".", "1", ".", "5">>
H_10            == <<"1", "0", ".", "0", ".", "0", ".", "1">>
H_172_16        == <<"1", "7", "2", ".", "1", "6", ".", "0", ".", "1">>
H_172_20        == <<"1", "7", "2", ".", "2", "0", ".", "0", ".", "1">>
H_172_31        == <<"1", "7", "2", ".", "3", "1", ".", "0", ".", "1">>
H_172_2         == <<"1", "7", "2", ".", "2", ".", "0", ".", "1">>
H_172_200       == <<"1", "7", "2", ".", "2", "0", "0", ".", "0", ".", "1">>
H_172_32        == <<"1", "7", "2", ".", "3", "2", ".", "0", ".", "1">>
H_169_254       == <<"1", "6", "9", ".", "2", "5", "4", ".", "1", ".", "1">>
H_zero          == <<"0", ".", "0", ".", "0", ".", "0">>
H_printer_local == <<"p", "r", "i", "n", "t", "e", "r", ".", "l", "o", "c", "a", "l">>
H_localnews     == <<"a", "p", "i", ".", "l", "o", "c", "a", "l", "n", "e", "w", "s", ".", "c", "o", "m">>
H_example       == <<"e", "x", "a", "m", "p", "l", "e", ".", "c", "o", "m">>
H_api_example   == <<"a", "p", "i", ".", "e", "x", "a", "m", "p", "l", "e", ".", "c", "o", "m">>
H_notexample    == <<"n", "o", "t", "e", "x", "a", "m", "p", "l", "e", ".", "c", "o", "m">>
H_Example       == <<"E", "x", "a", "m", "p", "l", "e", ".", "C", "O", "M">>
H_evil          == <<"e", "x", "a", "m", "p", "l", "e", ".", "c", "o", "m", ".", "e", "v", "i", "l", ".", "o", "r", "g">>

Hosts == {H_localhost, H_LocalHost, H_loopback4, H_loopback6, H_192_168, H_10,
          H_172_16, H_172_20, H_172_31, H_172_2, H_172_200, H_172_32,
          H_169_254, H_zero, H_printer_local, H_localnews, H_example,
          H_api_example, H_notexample, H_Example, H_evil}

P_schema == <<"/", "s", "c", "h", "e", "m", "a", ".", "j", "s", "o", "n">>
Port3000 == <<":", "3", "0", "0", "0">>

R_file_passwd == <<"f", "i", "l", "e", ":", "/", "/", "/", "e", "t", "c", "/", "p", "a", "s", "s", "w", "d">>
R_relative    == <<".", "/", "c", "o", "m", "m", "o", "n", ".", "y", "a", "m", "l">>
R_user        == <<"#", "/", "c", "o", "m", "p", "o", "n", "e", "n", "t", "s", "/", "s", "c", "h", "e", "m", "a", "s", "/", "U", "s", "e", "r">>
R_anchor      == <<"#", "U", "s", "e", "r">>

\* http://localhost:3000/schema.json and file:///etc/passwd are the references
\* of the resolver's tests; the hosts cover each branch of the hostname test
\* and its neighbours
ExternalRefUniverse ==
    {Url(S_http, h, <<>>, P_schema) : h \in Hosts}
    \cup {Url(S_http, H_localhost, Port3000, P_schema),
          Url(S_https, H_api_example, <<>>, P_schema),
          Url(S_https, H_loopback6, Port3000, P_schema),
          Url(S_HTTP, H_example, <<>>, P_schema),
          Url(S_ftp, H_example, <<>>, P_schema),
          R_file_passwd, R_relative, R_anchor}

RefUniverse == ExternalRefUniverse \cup {R_user}

RECURSIVE SeqsUpTo(_, _)
\* every sequence over S of length at most n
SeqsUpTo(S, n) ==
    IF n = 0 THEN {<<>>}
    ELSE LET shorter == SeqsUpTo(S, n - 1)
         IN  shorter \cup {Append(q, e) : q \in shorter, e \in S}

AllowLists == {<<>>, <<H_example>>, <<H_api_example, H_evil>>}

RefResolutionOptionsUniverse ==
    [resolveExternal : BOOLEAN, hasAllowedDomains : {TRUE}, allowedDomains : AllowLists]
    \cup [resolveExternal : BOOLEAN, hasAllowedDomains : {FALSE}, allowedDomains : {<<>>}]

-----------------------------------------------------------------------------
(* Documents.  A document is the parsed content of a file: the fields the   *)
(* validator, the resolver and the extractor read.  refs is the list of    *)
(* $ref strings in the order the recursive walk of extractReferencePaths   *)
(* meets them.                                                             *)

V_3_0_0 == <<"3", ".", "0", ".", "0">>
V_2_0   == <<"2", ".", "0">>
T_api   == <<"A", "P", "I">>
V_1     == <<"1", ".", "0">>

NoInfo   == [present |-> FALSE, title |-> JsUndefined, version |-> JsUndefined]
FullInfo == [present |-> TRUE, title |-> JsStr(T_api), version |-> JsStr(V_1)]

\* a structurally valid document with the given references and no paths
DocWithRefs(refs) ==
    [openapi    |-> JsStr(V_3_0_0),
     info       |-> FullInfo,
     paths      |-> [present |-> TRUE, items |-> <<>>],
     compParams |-> <<>>,
     refs       |-> refs]

\* the references that combine into longer documents
CoreRefs == {Url(S_http, H_localhost, Port3000, P_schema),
             Url(S_http, H_example, <<>>, P_schema),
             Url(S_https, H_api_example, <<>>, P_schema),
             Url(S_http, H_notexample, <<>>, P_schema),
             R_file_passwd, R_user}

ResolveDocs ==
    {DocWithRefs(q) : q \in SeqsUpTo(RefUniverse, 1) \cup SeqsUpTo(CoreRefs, MaxRefs)}

\* a parameter object.  An entry with isRef TRUE stands for
\* {$ref: "#/components/parameters/..."}; its other fields are those of the
\* component parameter the reference points to
Param(name, in, required) ==
    [isRef |-> FALSE, name |-> name, in |-> in, required |-> required]

RefParam(name, in, required) ==
    [isRef |-> TRUE, name |-> name, in |-> in, required |-> required]

\* an operation object under the key `method` of a path item
Operation(method, hasResponses, tags, parameters) ==
    [method |-> method, hasResponses |-> hasResponses, tags |-> tags,
     parameters |-> parameters]

PathItem(path, parameters, operations) ==
    [path |-> path, parameters |-> parameters, operations |-> operations]

\* an entry of components.parameters
ComponentParam(key, param) == [key |-> key, param |-> param]

IsRefParam(p) == p.isRef

\* the component parameters that the reference entries of ps point to
TargetsOf(ps) ==
    LET refsOnly == SelectSeq(ps, IsRefParam)
    IN  [i \in 1..Len(refsOnly) |->
            ComponentParam("Target", [refsOnly[i] EXCEPT !.isRef = FALSE])]

R_param == <<"#", "/", "c", "o", "m", "p", "o", "n", "e", "n", "t", "s", "/",
             "p", "a", "r", "a", "m", "e", "t", "e", "r", "s", "/", "T">>

\* one $ref string for each reference entry of ps
ParamRefs(ps) ==
    LET refsOnly == SelectSeq(ps, IsRefParam)
    IN  [i \in 1..Len(refsOnly) |-> R_param]

T_users   == <<"u", "s", "e", "r", "s">>
T_admin   == <<"a", "d", "m", "i", "n">>
T_pets    == <<"p", "e", "t", "s">>

GetUsers(parameters) == Operation("get", TRUE, <<T_users>>, parameters)

\* a valid document with one tagged operation
D_valid ==
    [openapi    |-> JsStr(V_3_0_0),
     info       |-> FullInfo,
     paths      |-> [present |-> TRUE,
                     items |-> <<PathItem("/users", <<>>, <<GetUsers(<<>>)>>)>>],
     compParams |-> <<>>,
     refs       |-> <<>>]

\* a valid document whose operations are declared out of the canonical order,
\* one of them untagged
D_twoOps ==
    [D_valid EXCEPT !.paths.items =
        <<PathItem("/users", <<>>,
                   <<Operation("post", TRUE, <<>>, <<>>),
                     Operation("get", TRUE, <<T_users, T_admin>>, <<>>)>>),
          PathItem("/pets", <<>>,
                   <<Operation("delete", TRUE, <<T_pets>>, <<>>)>>)>>]

D_v2          == [D_valid EXCEPT !.openapi = JsStr(V_2_0)]
\* a value with none of the fields of a document
D_empty ==
    [openapi    |-> JsUndefined,
     info       |-> NoInfo,
     paths      |-> [present |-> FALSE, items |-> <<>>],
     compParams |-> <<>>,
     refs       |-> <<>>]
D_noOpenapi   == [D_valid EXCEPT !.openapi = JsUndefined]
D_noInfo      == [D_valid EXCEPT !.info = NoInfo]
D_noVersion   == [D_valid EXCEPT !.info.version = JsUndefined]
D_noPaths     == [D_valid EXCEPT !.paths = [present |-> FALSE, items |-> <<>>]]
D_noResponses ==
    [D_valid EXCEPT !.paths.items =
        <<PathItem("/users", <<>>, <<Operation("get", FALSE, <<T_users>>, <<>>)>>)>>]
D_extLocal    == [D_valid EXCEPT !.refs = <<Url(S_http, H_localhost, Port3000, P_schema)>>]
D_extRemote   == [D_valid EXCEPT !.refs = <<Url(S_https, H_api_example, <<>>, P_schema)>>]

\* a document that declares the parameters ps at the operation, at the path
\* item or under components.parameters
ParamDoc(where, ps) ==
    [D_valid EXCEPT
        !.paths.items =
            <<PathItem("/users/{id}",
                       IF where = "path" THEN ps ELSE <<>>,
                       <<GetUsers(IF where = "operation" THEN ps ELSE <<>>)>>)>>,
        !.compParams =
            (IF where = "component"
             THEN [i \in 1..Len(ps) |-> ComponentParam("P", ps[i])]
             ELSE <<>>) \o TargetsOf(ps),
        !.refs = ParamRefs(ps)]

S_yes == <<"y", "e", "s">>

\* what a raw document may hold under `required`
RequiredValues == {JsUndefined, JsBool(TRUE), JsBool(FALSE), JsStr(S_yes)}

ParamUniverse ==
    {Param("id", in, r) : in \in {"path", "query"}, r \in RequiredValues}
    \cup {RefParam("id", "path", JsUndefined)}

ParamPositions == {"operation", "path", "component"}

ParamDocs ==
    {ParamDoc(where, ps) : where \in ParamPositions,
                           ps \in SeqsUpTo(ParamUniverse, MaxParams) \ {<<>>}}

-----------------------------------------------------------------------------
(* Files and the reader (parser/reader.ts).  A file is what the file       *)
(* system and the JSON / YAML parser make of a path: whether it exists,    *)
(* what path.extname returns, whether its text parses, whether the parsed  *)
(* content is a plain object, and then the document.                       *)

E_json     == <<".", "j", "s", "o", "n">>
E_yaml     == <<".", "y", "a", "m", "l">>
E_yml      == <<".", "y", "m", "l">>
E_YAML     == <<".", "Y", "A", "M", "L">>
E_txt      == <<".", "t", "x", "t">>

File(path, exists, ext, syntaxOk, isObject, doc) ==
    [path |-> path, exists |-> exists, ext |-> ext, syntaxOk |-> syntaxOk,
     isObject |-> isObject, doc |-> doc]

SpecFile(path, doc) == File(path, TRUE, E_json, TRUE, TRUE, doc)

F_missing     == File("missing.yaml", FALSE, E_yaml, TRUE, TRUE, D_valid)
F_text        == File("notes.txt", TRUE, E_txt, TRUE, TRUE, D_valid)
F_badSyntax   == File("broken.json", TRUE, E_json, FALSE, TRUE, D_valid)
F_array       == File("array.yml", TRUE, E_yml, TRUE, FALSE, D_empty)
F_valid       == SpecFile("valid.json", D_valid)
F_validYaml   == File("valid.YAML", TRUE, E_YAML, TRUE, TRUE, D_valid)
F_twoOps      == SpecFile("two-ops.json", D_twoOps)
F_v2          == SpecFile("swagger2.json", D_v2)
F_noOpenapi   == SpecFile("no-openapi.json", D_noOpenapi)
F_noInfo      == SpecFile("no-info.json", D_noInfo)
F_noVersion   == SpecFile("no-version.json", D_noVersion)
F_noPaths     == SpecFile("no-paths.json", D_noPaths)
F_noResponses == SpecFile("no-responses.json", D_noResponses)
F_extLocal    == SpecFile("ext-local.json", D_extLocal)
F_extRemote   == SpecFile("ext-remote.json", D_extRemote)

\* the files that combine into batches of more than one file
CoreFiles == {F_missing, F_valid, F_v2, F_noInfo, F_extRemote}

FileUniverse ==
    CoreFiles
    \cup {F_text, F_badSyntax, F_array, F_validYaml, F_twoOps, F_noOpenapi, F_extLocal,
          F_noVersion, F_noPaths, F_noResponses}
    \cup {SpecFile("params.json", d) : d \in ParamDocs}

\* an Error; `at` is the document path a validation error names
Err(kind, at) == [kind |-> kind, at |-> at]

IsJsonFormat(file) == ToLowerCase(file.ext) = E_json

\* an isYamlFormat that knows .yaml only
IsYamlFormatYamlOnly(file) == ToLowerCase(file.ext) = E_yaml

IsYamlFormat(file) == ToLowerCase(file.ext) \in {E_yaml, E_yml}

\* a parsed content: isObject says it is a plain object (not null, not an
\* array, not a primitive), typeofObject that typeof gives "object" and it is
\* not null (a plain object or an array); doc holds its fields
Content(isObject, typeofObject, doc) ==
    [isObject |-> isObject, typeofObject |-> typeofObject, doc |-> doc]

\* the parsed content of the files of the model is a plain object or an array
FileContent(file) ==
    [filePath |-> file.path,
     content  |-> Content(file.isObject, TRUE, file.doc),
     format   |-> IF IsJsonFormat(file) THEN "json" ELSE "yaml"]

ReadOpenApiFile(file) ==
    IF ~file.exists THEN Left(Err("FileDoesNotExist", ""))
    ELSE IF ~IsJsonFormat(file) /\ ~IsYamlFormat(file)
    THEN Left(Err("UnsupportedFileFormat", ""))
    ELSE IF ~file.syntaxOk THEN Left(Err("FailedToParse", ""))
    ELSE Right(FileContent(file))

IsValidObjectContent(content) == content.isObject

ValidateObjectStructure(fileContent) ==
    IF ~IsValidObjectContent(fileContent.content)
    THEN Left(Err("InvalidFileStructure", ""))
    ELSE Right(fileContent)

\* readOpenApiFile(filePath).pipe(Effect.flatMap(validateObjectStructure))
ReadAndValidateOpenApiFile(file) ==
    LET read == ReadOpenApiFile(file)
    IN  IF read.tag = "Left" THEN read ELSE ValidateObjectStructure(read.value)

-----------------------------------------------------------------------------
(* The validator (parser/validator.ts).                                     *)

ValidationError(path, message) == [path |-> path, message |-> message]

\* the checks of validateBasicStructure on the fields of the document: each
\* failing check ends the generator, so the first failing check is the only
\* one reported
ValidateBasicFields(document) ==
    IF ~document.info.present
    THEN Left(ValidationError("info", "Missing or invalid 'info' object"))
    ELSE IF document.info.title.t # "string"
    THEN Left(ValidationError("info.title", "Missing or invalid 'title' in info object"))
    ELSE IF document.info.version.t # "string"
    THEN Left(ValidationError("info.version", "Missing or invalid 'version' in info object"))
    ELSE IF ~document.paths.present
    THEN Left(ValidationError("paths", "Missing or invalid 'paths' object"))
    ELSE Right(TRUE)

ValidateBasicStructure(content) ==
    IF ~content.typeofObject
    THEN Left(ValidationError("root", "OpenAPI document must be an object"))
    ELSE ValidateBasicFields(content.doc)

\* a version check that accepts every string
VersionAnyString(version) ==
    IF version.t # "string"
    THEN Left(ValidationError("openapi", "Missing or invalid OpenAPI version field"))
    ELSE Right(TRUE)

\* the checks of validateOpenApiVersion on doc.openapi
ValidateVersionField(version) ==
    IF version.t # "string"
    THEN Left(ValidationError("openapi", "Missing or invalid OpenAPI version field"))
    ELSE IF ~StartsWith(version.s, <<"3", ".">>)
    THEN Left(ValidationError("openapi", "Unsupported OpenAPI version"))
    ELSE Right(TRUE)

ValidateOpenApiVersion(content) ==
    IF ~content.typeofObject
    THEN Left(ValidationError("root", "Document must be an object"))
    ELSE ValidateVersionField(content.doc.openapi)

ParameterLocations == {"query", "header", "path", "cookie"}

\* Schema.Union(ParameterSchema, ReferenceSchema) accepts the entry
DecodesAsParameter(p) ==
    \/ p.isRef
    \/ /\ p.in \in ParameterLocations
       /\ p.required.t \in {"undefined", "boolean"}

DecodesAsOperation(op) ==
    /\ op.hasResponses
    /\ \A i \in 1..Len(op.parameters) : DecodesAsParameter(op.parameters[i])

DecodesAsPathItem(item) ==
    /\ \A i \in 1..Len(item.parameters) : DecodesAsParameter(item.parameters[i])
    /\ \A i \in 1..Len(item.operations) : DecodesAsOperation(item.operations[i])

\* Schema.decodeUnknown(OpenApiDocumentSchema) succeeds on the document
DecodesAsOpenApiDocument(document) ==
    /\ document.openapi.t = "string"
    /\ document.info.present
    /\ document.info.title.t = "string"
    /\ document.info.version.t = "string"
    /\ \A i \in 1..Len(document.paths.items) : DecodesAsPathItem(document.paths.items[i])
    /\ \A i \in 1..Len(document.compParams) :
          DecodesAsParameter(document.compParams[i].param)

\* a formatParseErrors that reports nothing
FormatParseErrorsNone == <<>>

\* formatParseErrors(error): one error at path "schema"
FormatParseErrors == <<ValidationError("schema", "Schema validation failed")>>

ErrorsOf(either) == IF either.tag = "Left" THEN <<either.error>> ELSE <<>>

\* the decoded document keeps every field of the document that the model
\* follows, so it is the document itself
ValidateOpenApiDocument(fileContent) ==
    LET document == fileContent.content
        errors   == ErrorsOf(ValidateBasicStructure(document))
                    \o ErrorsOf(ValidateOpenApiVersion(document))
    IN  IF Len(errors) > 0
        THEN [isValid |-> FALSE, hasDocument |-> FALSE, errors |-> errors]
        ELSE IF document.isObject /\ DecodesAsOpenApiDocument(document.doc)
        THEN [isValid |-> TRUE, hasDocument |-> TRUE, errors |-> <<>>]
        ELSE [isValid |-> FALSE, hasDocument |-> FALSE, errors |-> FormatParseErrors]

ValidateOpenApiDocumentStrict(fileContent) ==
    LET result == ValidateOpenApiDocument(fileContent)
    IN  IF ~result.isValid
        THEN Left(Err("OpenApiValidationFailed", result.errors[1].path))
        ELSE IF ~result.hasDocument
        THEN Left(Err("DocumentUndefined", ""))
        ELSE Right(fileContent.content.doc)

-----------------------------------------------------------------------------
(* The extractor (parser/extractor.ts).                                     *)

\* required: param.required || param.in === "path"
ExtractParameter(param) ==
    [name     |-> param.name,
     in       |-> param.in,
     required |-> JsOr(param.required, JsBool(param.in = "path"))]

NotRefParam(p) == ~p.isRef

\* (parameters || []).filter(param => !("$ref" in param)).map(extractParameter)
ExtractParameters(parameters) ==
    LET inline == SelectSeq(parameters, NotRefParam)
    IN  [i \in 1..Len(inline) |-> ExtractParameter(inline[i])]

ToUpperCaseMethod ==
    [get |-> "GET", put |-> "PUT", post |-> "POST", delete |-> "DELETE",
     options |-> "OPTIONS", head |-> "HEAD", patch |-> "PATCH", trace |-> "TRACE"]

ExtractOperation(method, operation) ==
    [method     |-> ToUpperCaseMethod[method],
     tags       |-> operation.tags,
     parameters |-> ExtractParameters(operation.parameters)]

httpMethods == <<"get", "put", "post", "delete", "options", "head", "patch", "trace">>

\* the operations come out in the order of httpMethods, not in declared order
ExtractPath(pathObj) ==
    LET Declared(m) == \E i \in 1..Len(pathObj.operations) : pathObj.operations[i].method = m
        OperationAt(m) ==
            pathObj.operations[CHOOSE i \in 1..Len(pathObj.operations) :
                                    pathObj.operations[i].method = m]
        methods == SelectSeq(httpMethods, Declared)
    IN  [path       |-> pathObj.path,
         operations |-> [i \in 1..Len(methods) |->
                            ExtractOperation(methods[i], OperationAt(methods[i]))],
         parameters |-> ExtractParameters(pathObj.parameters)]

NotRefComponent(c) == ~c.param.isRef

ExtractComponents(document) ==
    LET inline == SelectSeq(document.compParams, NotRefComponent)
    IN  [parameters |-> [i \in 1..Len(inline) |->
                            [key |-> inline[i].key,
                             param |-> ExtractParameter(inline[i].param)]]]

\* what makes the body of extractApiData throw: document.info.title of a
\* document without info, Object.entries(operation.responses) of an operation
\* without responses
ExtractionThrows(document) ==
    \/ ~document.info.present
    \/ \E i \in 1..Len(document.paths.items) :
          \E j \in 1..Len(document.paths.items[i].operations) :
             ~document.paths.items[i].operations[j].hasResponses

ExtractApiData(document) ==
    IF ExtractionThrows(document)
    THEN Left(Err("FailedToExtractApiData", ""))
    ELSE Right([info       |-> [title |-> document.info.title,
                                version |-> document.info.version],
                paths      |-> IF document.paths.present
                               THEN [i \in 1..Len(document.paths.items) |->
                                        ExtractPath(document.paths.items[i])]
                               ELSE <<>>,
                components |-> ExtractComponents(document)])

-----------------------------------------------------------------------------
(* resolveReferences, step by step.                                        *)

ExtractReferencePaths(document) == document.refs

\* GateLoopHasNext of a loop that validates the first reference only
GateLoopFirstOnly(idx, external) == idx <= 1 /\ idx <= Len(external)

\* for (const extRef of external): the loop has another reference to validate
GateLoopHasNext(idx, external) == idx <= Len(external)

\* ResolversEnabled of a bundle call that leaves the http resolvers on
ResolversAlwaysEnabled(options) == TRUE

\* resolve.http / resolve.https of the options handed to RefParser: the call
\* of dereference passes secureParserOptions, the call of bundle turns every
\* resolver off
ResolversEnabled(options) == options.resolveExternal

\* what RefParser returns: dereference replaces every reference by its target,
\* bundle (with no resolver enabled) leaves the references in place
Dereferenced(ps) == [i \in 1..Len(ps) |-> [ps[i] EXCEPT !.isRef = FALSE]]

DereferencedOperation(op) == [op EXCEPT !.parameters = Dereferenced(@)]

DereferencedPath(item) ==
    [item EXCEPT !.parameters = Dereferenced(@),
                 !.operations = [i \in 1..Len(@) |-> DereferencedOperation(@[i])]]

ParserOutput(document, options) ==
    IF options.resolveExternal
    THEN [document EXCEPT
            !.refs = <<>>,
            !.paths.items = [i \in 1..Len(@) |-> DereferencedPath(@[i])],
            !.compParams =
                [i \in 1..Len(@) |-> [@[i] EXCEPT !.param.isRef = FALSE]]]
    ELSE document

\* RefParser.dereference(document, ...) and RefParser.bundle(document, ...)
\* are called on the caller's object, with no copy made before: the parser
\* either writes into that object or works on a copy of its own
ParserWritesInPlace == BOOLEAN

ResolvedDocument(document, resolved, referencePaths) ==
    [original |-> document, resolved |-> resolved, referencePaths |-> referencePaths]

DefaultRefResolutionOptions ==
    [resolveExternal |-> FALSE, hasAllowedDomains |-> TRUE, allowedDomains |-> <<>>]

\* the options resolveInternalReferences passes
ResolveInternalOptions ==
    [resolveExternal |-> FALSE, hasAllowedDomains |-> FALSE, allowedDomains |-> <<>>]

\* the options resolveAllReferences passes
ResolveAllOptions ==
    [resolveExternal |-> TRUE, hasAllowedDomains |-> FALSE, allowedDomains |-> <<>>]

RExternal == ClassifyReferences(rrefs).external

defaultParseOptions ==
    [resolveExternalReferences |-> FALSE, skipValidation |-> FALSE,
     continueOnValidationError |-> FALSE]

\* an IR without operations
NoApiData ==
    [info       |-> [title |-> JsStr(T_api), version |-> JsStr(V_1)],
     paths      |-> <<>>,
     components |-> [parameters |-> <<>>]]

\* the handler when no run of it is modelled
CliOff ==
    [pc |-> "off", outputPath |-> "absent", todo |-> <<>>, written |-> <<>>,
     error |-> Err("", "")]

\* no call of resolveReferences
ROff ==
    /\ rdoc = DocWithRefs(<<>>)
    /\ robj = DocWithRefs(<<>>)
    /\ ropts = DefaultRefResolutionOptions
    /\ rpc = "off"
    /\ rrefs = <<>>
    /\ rgateIdx = 1
    /\ rgated = <<>>
    /\ rfetchIdx = 1
    /\ rfetched = <<>>
    /\ rresult = None

\* no pipeline, batch or CLI run
POff ==
    /\ files = <<>>
    /\ popts = defaultParseOptions
    /\ mode = "off"
    /\ pipe = <<>>
    /\ batch = None
    /\ cli = CliOff

\* no call of validateOpenApiDocument
VOff ==
    /\ vcontent = FileContent(F_valid)
    /\ vpc = "off"
    /\ verrors = <<>>
    /\ vresult = None

\* no call of a naming helper
NOff ==
    /\ nstr = <<>>
    /\ npc = "off"
    /\ nout = NoNames
    /\ nagain = NoNames

\* no call of generate
GOff ==
    /\ gdata = NoApiData
    /\ grun = 0
    /\ gpc = "off"
    /\ ggroups = <<>>
    /\ gidx = 1
    /\ gdir = {}
    /\ glog = <<>>
    /\ gfirst = None

\* no call of readOpenApiFile
DOff ==
    /\ dfile = F_valid
    /\ dpc = "off"
    /\ dops = <<>>
    /\ dresult = None

\* no call of one of the other functions
COff ==
    /\ cin = <<>>
    /\ cpc = "off"
    /\ cout = <<>>

\* no call of a single function
XOff ==
    /\ VOff
    /\ NOff
    /\ GOff
    /\ DOff
    /\ COff

RInit ==
    /\ POff
    /\ XOff
    /\ rdoc \in ResolveDocs
    /\ robj = rdoc
    /\ ropts \in RefResolutionOptionsUniverse
    /\ rpc = "start"
    /\ rrefs = <<>>
    /\ rgateIdx = 1
    /\ rgated = <<>>
    /\ rfetchIdx = 1
    /\ rfetched = <<>>
    /\ rresult = None

\* const referencePaths = extractReferencePaths(document)
RStart ==
    /\ UNCHANGED <<pvars, xvars>>
    /\ rpc = "start"
    /\ rrefs' = ExtractReferencePaths(rdoc)
    /\ rpc' = IF ropts.resolveExternal THEN "gate" ELSE "resolve"
    /\ UNCHANGED <<rdoc, robj, ropts, rgateIdx, rgated, rfetchIdx, rfetched, rresult>>

\* one iteration of the gate loop: yield* validateExternalUrl(extRef, options)
RGate ==
    /\ UNCHANGED <<pvars, xvars>>
    /\ rpc = "gate"
    /\ GateLoopHasNext(rgateIdx, RExternal)
    /\ LET extRef  == RExternal[rgateIdx]
           verdict == ValidateExternalUrl(extRef, ropts)
       IN  /\ rgated' = Append(rgated, extRef)
           /\ IF verdict = "Ok"
              THEN /\ rgateIdx' = rgateIdx + 1
                   /\ UNCHANGED <<rpc, rresult>>
              ELSE /\ rpc' = "done"
                   /\ rresult' = Left(verdict)
                   /\ UNCHANGED rgateIdx
    /\ UNCHANGED <<rdoc, robj, ropts, rrefs, rfetchIdx, rfetched>>

\* the gate loop is left with every external reference validated
RGateExit ==
    /\ UNCHANGED <<pvars, xvars>>
    /\ rpc = "gate"
    /\ ~GateLoopHasNext(rgateIdx, RExternal)
    /\ rpc' = "resolve"
    /\ UNCHANGED <<rdoc, robj, ropts, rrefs, rgateIdx, rgated, rfetchIdx, rfetched, rresult>>

\* RefParser reads the next external resource (once per URL); the transport
\* may fail, and with continueOnError false the first failure rejects
RFetch ==
    /\ UNCHANGED <<pvars, xvars>>
    /\ rpc = "resolve"
    /\ ResolversEnabled(ropts)
    /\ rfetchIdx <= Len(RExternal)
    /\ LET extRef == RExternal[rfetchIdx]
       IN  IF extRef \in Range(rfetched)
           THEN /\ rfetchIdx' = rfetchIdx + 1
                /\ UNCHANGED <<rpc, rfetched, rresult>>
           ELSE /\ rfetched' = Append(rfetched, extRef)
                /\ \E ok \in BOOLEAN :
                      IF ok
                      THEN /\ rfetchIdx' = rfetchIdx + 1
                           /\ UNCHANGED <<rpc, rresult>>
                      ELSE /\ rpc' = "done"
                           /\ rresult' = Left("FetchError")
                           /\ UNCHANGED rfetchIdx
    /\ UNCHANGED <<rdoc, robj, ropts, rrefs, rgateIdx, rgated>>

\* RefParser resolves; resolveReferences returns {original, resolved,
\* referencePaths}. The parser is handed the object `document` itself, and
\* `original` is that same object: where the parser writes the targets into
\* the object it was given, the object changes under both names
RFinish ==
    /\ UNCHANGED <<pvars, xvars>>
    /\ rpc = "resolve"
    /\ ~ResolversEnabled(ropts) \/ rfetchIdx > Len(RExternal)
    /\ rpc' = "done"
    /\ rresult' = Right(ResolvedDocument(rdoc, ParserOutput(rdoc, ropts), rrefs))
    /\ \E inPlace \in ParserWritesInPlace :
          robj' = IF inPlace THEN ParserOutput(rdoc, ropts) ELSE rdoc
    /\ UNCHANGED <<rdoc, ropts, rrefs, rgateIdx, rgated, rfetchIdx, rfetched>>

NextResolve == RStart \/ RGate \/ RGateExit \/ RFetch \/ RFinish

SpecResolve == RInit /\ [][NextResolve]_vars

\* the verdict of the first rejected reference, "Ok" when none is rejected
FirstRejection(verdicts) ==
    LET rejected == {i \in 1..Len(verdicts) : verdicts[i] # "Ok"}
    IN  IF rejected = {} THEN "Ok" ELSE verdicts[Min(rejected)]

\* the verdict the gate loop ends with
GateOutcome(external, options) ==
    FirstRejection([i \in 1..Len(external) |-> ValidateExternalUrl(external[i], options)])

\* what resolveReferences ends with once the gate loop has ended with `gate`
OutcomesAfterGate(document, options, gate) ==
    IF gate # "Ok" THEN {Left(gate)}
    ELSE IF /\ ResolversEnabled(options)
            /\ ClassifyReferences(ExtractReferencePaths(document)).external # <<>>
    THEN {Left("FetchError"),
          Right(ResolvedDocument(document, ParserOutput(document, options),
                                 ExtractReferencePaths(document)))}
    ELSE {Right(ResolvedDocument(document, ParserOutput(document, options),
                                 ExtractReferencePaths(document)))}

\* every Either that one call of resolveReferences can end with (the run of
\* RStart .. RFinish as one step)
ResolveOutcomes(document, options) ==
    OutcomesAfterGate(document, options,
        IF options.resolveExternal
        THEN GateOutcome(ClassifyReferences(ExtractReferencePaths(document)).external,
                         options)
        ELSE "Ok")

-----------------------------------------------------------------------------
(* parseOpenApiFile (parser/index.ts): the four stages of one file.        *)

ParseOptionsUniverse ==
    [resolveExternalReferences : BOOLEAN, skipValidation : BOOLEAN,
     continueOnValidationError : BOOLEAN]

Stages == <<"reading", "validation", "resolution", "extraction">>

MessagePrefix ==
    [reading    |-> "Failed to read OpenAPI file",
     validation |-> "OpenAPI validation failed",
     resolution |-> "Reference resolution failed",
     extraction |-> "Data extraction failed"]

\* ParseError of a pipeline that forgets which file it was given
ParseErrorNoPath(filePath, stage, cause) ==
    [filePath |-> "", stage |-> stage,
     message |-> <<MessagePrefix[stage], cause.kind, cause.at>>, cause |-> cause]

\* {filePath, stage, message: `<prefix>: ${cause.message}`, cause}
ParseError(filePath, stage, cause) ==
    [filePath |-> filePath, stage |-> stage,
     message |-> <<MessagePrefix[stage], cause.kind, cause.at>>, cause |-> cause]

\* StopsOnValidationError of a pipeline that never stops at a validation error
NeverStopsOnValidationError(opts) == FALSE

\* if (!opts.continueOnValidationError) return yield* Effect.fail(...)
StopsOnValidationError(opts) == ~opts.continueOnValidationError

\* SkipsValidation of a pipeline that validates whatever the options say
NeverSkipsValidation(opts) == FALSE

\* if (!opts.skipValidation) { ... } else { validatedDocument = fileContent.content }
SkipsValidation(opts) == opts.skipValidation

\* opts.resolveExternalReferences ? resolveAllReferences : resolveInternalReferences
ResolutionOptions(opts) ==
    IF opts.resolveExternalReferences THEN ResolveAllOptions ELSE ResolveInternalOptions

\* ParseResult of a pipeline that reports every parsed file as valid
ParseResultAlwaysValid(fileContent, validatedDocument, validationErrors, resolvedDocument, extractedData) ==
    [filePath         |-> fileContent.filePath,
     format           |-> fileContent.format,
     isValid          |-> TRUE,
     originalDocument |-> validatedDocument,
     resolvedDocument |-> resolvedDocument.resolved,
     extractedData    |-> extractedData,
     referencePaths   |-> resolvedDocument.referencePaths,
     validationErrors |-> validationErrors]

\* the value parseOpenApiFile returns
ParseResult(fileContent, validatedDocument, validationErrors, resolvedDocument, extractedData) ==
    [filePath         |-> fileContent.filePath,
     format           |-> fileContent.format,
     isValid          |-> Len(validationErrors) = 0,
     originalDocument |-> validatedDocument,
     resolvedDocument |-> resolvedDocument.resolved,
     extractedData    |-> extractedData,
     referencePaths   |-> resolvedDocument.referencePaths,
     validationErrors |-> validationErrors]

NoErr == Err("", "")

\* one entry of the record of the stages a pipeline has run
Ran(stage, ok, error) == [stage |-> stage, ok |-> ok, error |-> error]

PipeIdle ==
    [pc |-> "idle", fileContent |-> None, validatedDocument |-> None,
     validationErrors |-> <<>>, resolvedDocument |-> None, result |-> None,
     ran |-> <<>>]

PipeStart == [PipeIdle EXCEPT !.pc = "read"]

\* return yield* Effect.fail({filePath, stage, message, cause})
PipeFail(p, filePath, stage, cause) ==
    [p EXCEPT !.pc = "done",
              !.result = Left(ParseError(filePath, stage, cause)),
              !.ran = Append(@, Ran(stage, FALSE, cause))]

\* Stage 1: readAndValidateOpenApiFile; with skipValidation the raw content
\* becomes the document in the same step
PRead(i) ==
    /\ pipe[i].pc = "read"
    /\ LET read == ReadAndValidateOpenApiFile(files[i])
           p    == pipe[i]
       IN  pipe' = [pipe EXCEPT ![i] =
              IF read.tag = "Left"
              THEN PipeFail(p, files[i].path, "reading", read.error)
              ELSE [p EXCEPT
                      !.fileContent = read.value,
                      !.ran = Append(@, Ran("reading", TRUE, NoErr)),
                      !.validatedDocument =
                          IF SkipsValidation(popts) THEN read.value.content.doc ELSE None,
                      !.pc = IF SkipsValidation(popts) THEN "resolve" ELSE "validate"]]
    /\ UNCHANGED <<files, popts, mode, batch, cli, rvars, xvars>>

\* Stage 2: validateOpenApiDocumentStrict
PValidate(i) ==
    /\ pipe[i].pc = "validate"
    /\ LET validationResult == ValidateOpenApiDocumentStrict(pipe[i].fileContent)
           p == pipe[i]
       IN  pipe' = [pipe EXCEPT ![i] =
              IF validationResult.tag = "Left"
              THEN IF StopsOnValidationError(popts)
                   THEN [PipeFail(p, files[i].path, "validation", validationResult.error)
                            EXCEPT !.validationErrors = <<validationResult.error>>]
                   ELSE [p EXCEPT
                           !.validationErrors = <<validationResult.error>>,
                           !.validatedDocument = p.fileContent.content.doc,
                           !.ran = Append(@, Ran("validation", FALSE, validationResult.error)),
                           !.pc = "resolve"]
              ELSE [p EXCEPT
                      !.validatedDocument = validationResult.value,
                      !.ran = Append(@, Ran("validation", TRUE, NoErr)),
                      !.pc = "resolve"]]
    /\ UNCHANGED <<files, popts, mode, batch, cli, rvars, xvars>>

\* Stage 3: resolveAllReferences or resolveInternalReferences
PResolve(i) ==
    /\ pipe[i].pc = "resolve"
    /\ \E resolutionResult \in
             ResolveOutcomes(pipe[i].validatedDocument, ResolutionOptions(popts)) :
          LET p == pipe[i]
          IN  pipe' = [pipe EXCEPT ![i] =
                 IF resolutionResult.tag = "Left"
                 THEN PipeFail(p, files[i].path, "resolution", Err(resolutionResult.error, ""))
                 ELSE [p EXCEPT
                         !.resolvedDocument = resolutionResult.value,
                         !.ran = Append(@, Ran("resolution", TRUE, NoErr)),
                         !.pc = "extract"]]
    /\ UNCHANGED <<files, popts, mode, batch, cli, rvars, xvars>>

\* Stage 4: extractApiData(resolvedDocument.resolved), then the ParseResult
PExtract(i) ==
    /\ pipe[i].pc = "extract"
    /\ LET extractionResult == ExtractApiData(pipe[i].resolvedDocument.resolved)
           p == pipe[i]
       IN  pipe' = [pipe EXCEPT ![i] =
              IF extractionResult.tag = "Left"
              THEN PipeFail(p, files[i].path, "extraction", extractionResult.error)
              ELSE [p EXCEPT
                      !.ran = Append(@, Ran("extraction", TRUE, NoErr)),
                      !.result = Right(ParseResult(p.fileContent, p.validatedDocument,
                                                   p.validationErrors, p.resolvedDocument,
                                                   extractionResult.value)),
                      !.pc = "done"]]
    /\ UNCHANGED <<files, popts, mode, batch, cli, rvars, xvars>>

-----------------------------------------------------------------------------
(* parseOpenApiFiles and parseOpenApiFilesCollectErrors: Effect.all over   *)
(* parseOpenApiFile(...).pipe(Effect.either) with unbounded concurrency,   *)
(* then the partition of the results.                                      *)

IsRight(either) == either.tag = "Right"
IsLeft(either)  == either.tag = "Left"

\* the results array of Effect.all, in input order
Results == [i \in 1..Len(files) |-> pipe[i].result]

AllSettled == \A i \in 1..Len(files) : pipe[i].pc = "done"

Successes(results) ==
    LET rights == SelectSeq(results, IsRight)
    IN  [i \in 1..Len(rights) |-> rights[i].value]

\* Failures of a partition that loses the last failure
FailuresButLast(results) ==
    LET lefts == SelectSeq(results, IsLeft)
    IN  [i \in 1..(Len(lefts) - 1) |-> lefts[i].error]

Failures(results) ==
    LET lefts == SelectSeq(results, IsLeft)
    IN  [i \in 1..Len(lefts) |-> lefts[i].error]

\* FailFastResult of a batch that reports the first failure only
FailFastResultFirstOnly(successes, failures) ==
    IF Len(failures) > 0 THEN Left(<<failures[1]>>) ELSE Right(successes)

\* if (failures.length > 0) return yield* Effect.fail(failures); return successes
FailFastResult(successes, failures) ==
    IF Len(failures) > 0 THEN Left(failures) ELSE Right(successes)

BatchFailFast ==
    /\ mode = "failfast"
    /\ batch = None
    /\ AllSettled
    /\ batch' = FailFastResult(Successes(Results), Failures(Results))
    /\ UNCHANGED <<files, popts, mode, pipe, cli, rvars, xvars>>

BatchCollectErrors ==
    /\ mode = "collect"
    /\ batch = None
    /\ AllSettled
    /\ batch' = Right([successes |-> Successes(Results), failures |-> Failures(Results)])
    /\ UNCHANGED <<files, popts, mode, pipe, cli, rvars, xvars>>

-----------------------------------------------------------------------------
(* generateHandler (src/index.ts) and HttpApiGenerator.generate             *)
(* (generator/http-api-generator.ts).                                      *)

OutputPathKinds == {"absent", "directory", "file"}

Artifact(kind, tag) == [kind |-> kind, tag |-> tag]

T_default == <<"d", "e", "f", "a", "u", "l", "t">>

\* const tag = operation.tags[0] || "default": undefined and the empty string
\* are falsy
FirstTagOrDefault(operation) ==
    IF Len(operation.tags) > 0 /\ operation.tags[1] # <<>>
    THEN operation.tags[1]
    ELSE T_default

\* the operations in the order of the two loops, each with the path of its
\* path item: {...operation, path: pathItem.path}
OperationsInOrder(apiData) ==
    LET WithPath(item) ==
            [j \in 1..Len(item.operations) |->
                [operation |-> item.operations[j], path |-> item.path]]
        Flat[k \in 0..Len(apiData.paths)] ==
            IF k = 0 THEN <<>> ELSE Flat[k - 1] \o WithPath(apiData.paths[k])
    IN  Flat[Len(apiData.paths)]

\* the first tags (or "default") of the operations, in order
OperationTags(apiData) ==
    LET entries == OperationsInOrder(apiData)
    IN  [k \in 1..Len(entries) |-> FirstTagOrDefault(entries[k].operation)]

\* a push that starts a new group for every operation
PushToNewGroup(groups, tag, entry) ==
    Append(groups, [tag |-> tag, operations |-> <<entry>>])

\* if (!groups.has(tag)) groups.set(tag, []); groups.get(tag)?.push(entry):
\* a Map keeps its keys in insertion order
PushToGroup(groups, tag, entry) ==
    IF \E g \in 1..Len(groups) : groups[g].tag = tag
    THEN [g \in 1..Len(groups) |->
            IF groups[g].tag = tag
            THEN [groups[g] EXCEPT !.operations = Append(@, entry)]
            ELSE groups[g]]
    ELSE Append(groups, [tag |-> tag, operations |-> <<entry>>])

\* the Map of groupOperationsByTag as the sequence of its entries
GroupOperationsByTag(apiData) ==
    LET entries == OperationsInOrder(apiData)
        Groups[k \in 0..Len(entries)] ==
            IF k = 0 THEN <<>>
            ELSE PushToGroup(Groups[k - 1], FirstTagOrDefault(entries[k].operation),
                             entries[k])
    IN  Groups[Len(entries)]

\* Array.from(apiGroups.keys())
GroupTags(apiData) ==
    LET groups == GroupOperationsByTag(apiData)
    IN  [g \in 1..Len(groups) |-> groups[g].tag]

\* `${this.toKebabCase(tag)}-api.ts`
GetApiGroupFileName(tag) ==
    HttpApiGenerator_toKebabCase(tag) \o <<"-", "a", "p", "i", ".", "t", "s">>

\* `${this.toPascalCase(tag)}Api`
GetApiGroupClassName(tag) ==
    HttpApiGenerator_toPascalCase(tag) \o <<"A", "p", "i">>

\* `${this.toPascalCase(this.apiData.info.title)}Api`
GetMainApiName(apiData) ==
    HttpApiGenerator_toPascalCase(apiData.info.title.s) \o <<"A", "p", "i">>

\* str.replace(pattern, by) with a string pattern: the first occurrence only
ReplaceFirst(str, pattern, by) ==
    IF Includes(str, pattern)
    THEN LET i == Min({k \in 1..(Len(str) - Len(pattern) + 1) :
                          SubSeq(str, k, k + Len(pattern) - 1) = pattern})
         IN  SubSeq(str, 1, i - 1) \o by \o SubSeq(str, i + Len(pattern), Len(str))
    ELSE str

N_schemas_ts == <<"s", "c", "h", "e", "m", "a", "s", ".", "t", "s">>
N_index_ts   == <<"i", "n", "d", "e", "x", ".", "t", "s">>
N_dot_ts     == <<".", "t", "s">>
N_dot_js     == <<".", "j", "s">>

\* the text of a generated file, by the parts that depend on the IR
FileText(kind, className, tag, operations, imports, instances) ==
    [kind |-> kind, className |-> className, tag |-> tag, operations |-> operations,
     imports |-> imports, instances |-> instances]

\* generateSchemasFile(): the import line and the schemas of the components
GenerateSchemasFile(apiData) ==
    FileText("schemas", <<>>, <<>>, <<>>, <<>>, <<>>)

\* generateApiGroupFile(tag, operations): the imports and the group class
GenerateApiGroupFile(tag, operations) ==
    FileText("group", GetApiGroupClassName(tag), tag, operations, <<>>, <<>>)

\* generateIndexFile(tags): one import per tag, the schema export and the
\* main class with one instance per tag
GenerateIndexFile(apiData, tags) ==
    FileText("index", GetMainApiName(apiData), <<>>, <<>>,
             [k \in 1..Len(tags) |->
                 [className |-> GetApiGroupClassName(tags[k]),
                  from      |-> ReplaceFirst(GetApiGroupFileName(tags[k]),
                                             N_dot_ts, N_dot_js)]],
             [k \in 1..Len(tags) |-> GetApiGroupClassName(tags[k])])

\* a write that keeps an existing file and writes a copy beside it
WriteFileNoClobber(dir, name, content) ==
    IF \E e \in dir : e.name = name
    THEN dir \cup {[name |-> name \o <<"~">>, content |-> content]}
    ELSE dir \cup {[name |-> name, content |-> content]}

\* fs.writeFile(filePath, content, "utf8"): creates the file or replaces its
\* content
WriteFile(dir, name, content) ==
    {e \in dir : e.name # name} \cup {[name |-> name, content |-> content]}

\* what generate() does, in order: mkdir, schemas.ts, one file per group, index.ts
GenerationSteps(apiData) ==
    LET groups == GroupTags(apiData)
    IN  <<Artifact("mkdir", <<>>), Artifact("schemas.ts", <<>>)>>
        \o [i \in 1..Len(groups) |-> Artifact("group", groups[i])]
        \o <<Artifact("index.ts", <<>>)>>

CliFail(c, error) == [c EXCEPT !.pc = "failed", !.error = error]

\* validateInputFile(finalInput)
CliValidateInput ==
    /\ mode = "cli"
    /\ cli.pc = "validateInput"
    /\ cli' = IF ~files[1].exists
              THEN CliFail(cli, Err("InputFileDoesNotExist", ""))
              ELSE IF ToLowerCase(files[1].ext) \notin {E_json, E_yaml, E_yml}
              THEN CliFail(cli, Err("InvalidFileFormat", ""))
              ELSE [cli EXCEPT !.pc = "validateOutput"]
    /\ UNCHANGED <<files, popts, mode, pipe, batch, rvars, xvars>>

\* validateOutputDirectory(finalOutput): makeDirectory (recursive), then stat;
\* then the handler calls quickParseOpenApiFile(finalInput)
CliValidateOutput ==
    /\ mode = "cli"
    /\ cli.pc = "validateOutput"
    /\ IF cli.outputPath = "file"
       THEN /\ cli' = CliFail(cli, Err("OutputPathNotADirectory", ""))
            /\ UNCHANGED pipe
       ELSE /\ cli' = [cli EXCEPT !.pc = "parse", !.outputPath = "directory"]
            /\ pipe' = [pipe EXCEPT ![1] = PipeStart]
    /\ UNCHANGED <<files, popts, mode, batch, rvars, xvars>>

\* if (parseResult._tag === "Left") {...; return yield* Effect.fail(error)}
GenerationAllowed(parseResult) == parseResult.tag = "Right"

\* the handler receives the result of quickParseOpenApiFile: a Left ends it,
\* a Right starts generateHttpApi(extractedData, ...)
CliParsed ==
    /\ mode = "cli"
    /\ cli.pc = "parse"
    /\ pipe[1].pc = "done"
    /\ LET parseResult == pipe[1].result
       IN  cli' = IF GenerationAllowed(parseResult)
                  THEN [cli EXCEPT
                          !.pc = "generate",
                          !.todo = GenerationSteps(parseResult.value.extractedData)]
                  ELSE CliFail(cli, Err(parseResult.error.stage, parseResult.error.cause.kind))
    /\ UNCHANGED <<files, popts, mode, pipe, batch, rvars, xvars>>

\* the next step of generate(): fs.mkdir or one writeFile, which may fail
GenStep ==
    /\ mode = "cli"
    /\ cli.pc = "generate"
    /\ cli.todo # <<>>
    /\ \E ok \in BOOLEAN :
          cli' = IF ok
                 THEN [cli EXCEPT
                         !.todo = Tail(@),
                         !.written = IF Head(cli.todo).kind = "mkdir"
                                     THEN @ ELSE Append(@, Head(cli.todo))]
                 ELSE CliFail(cli, Err("FailedToWriteFile", Head(cli.todo).kind))
    /\ UNCHANGED <<files, popts, mode, pipe, batch, rvars, xvars>>

\* generate() returns; the handler logs the completion
GenDone ==
    /\ mode = "cli"
    /\ cli.pc = "generate"
    /\ cli.todo = <<>>
    /\ cli' = [cli EXCEPT !.pc = "done"]
    /\ UNCHANGED <<files, popts, mode, pipe, batch, rvars, xvars>>

-----------------------------------------------------------------------------
(* The runs: a batch call of either policy, or one run of the handler.     *)

Batches == SeqsUpTo(CoreFiles, MaxFiles) \cup {<<f>> : f \in FileUniverse}

Init ==
    /\ mode \in {"failfast", "collect", "cli"}
    /\ files \in (IF mode = "cli" THEN {<<f>> : f \in FileUniverse} ELSE Batches)
    /\ popts \in (IF mode = "cli" THEN {defaultParseOptions} ELSE ParseOptionsUniverse)
    /\ pipe = [i \in 1..Len(files) |-> IF mode = "cli" THEN PipeIdle ELSE PipeStart]
    /\ batch = None
    /\ cli \in (IF mode = "cli"
                THEN {[CliOff EXCEPT !.pc = "validateInput", !.outputPath = k] :
                         k \in OutputPathKinds}
                ELSE {CliOff})
    /\ ROff
    /\ XOff

Next ==
    \/ \E i \in 1..Len(files) : PRead(i)
    \/ \E i \in 1..Len(files) : PValidate(i)
    \/ \E i \in 1..Len(files) : PResolve(i)
    \/ \E i \in 1..Len(files) : PExtract(i)
    \/ BatchFailFast
    \/ BatchCollectErrors
    \/ CliValidateInput
    \/ CliValidateOutput
    \/ CliParsed
    \/ GenStep
    \/ GenDone

Spec == Init /\ [][Next]_vars

(***************************************************************************)
(* validateOpenApiDocument, one call, step by step                         *)
(***************************************************************************)

V_3_1_0  == <<"3", ".", "1", ".", "0">>
V_3_dot  == <<"3", ".">>
V_3      == <<"3">>
V_30_0   == <<"3", "0", ".", "0">>
V_4_0_0  == <<"4", ".", "0", ".", "0">>

\* the values of the openapi field
OpenapiValues ==
    {JsStr(V_3_0_0), JsStr(V_3_1_0), JsStr(V_3_dot), JsStr(V_3), JsStr(V_30_0),
     JsStr(V_2_0), JsStr(V_4_0_0), JsStr(<<>>), JsUndefined, JsNum}

\* the values of info.title and info.version
InfoFieldValues(s) == {JsStr(s), JsUndefined, JsNum}

InfoValues ==
    {NoInfo} \cup {[present |-> TRUE, title |-> t, version |-> v] :
                      t \in InfoFieldValues(T_api), v \in InfoFieldValues(V_1)}

PathsValues ==
    {[present |-> FALSE, items |-> <<>>],
     [present |-> TRUE, items |-> <<>>],
     D_valid.paths,
     D_noResponses.paths}

\* the contents handed to validateOpenApiDocument: objects with every
\* combination of the fields the checks read, an array, and a value that is
\* not an object (null or a primitive)
ValidationContents ==
    {Content(TRUE, TRUE, [openapi |-> o, info |-> i, paths |-> p,
                          compParams |-> <<>>, refs |-> <<>>]) :
        o \in OpenapiValues, i \in InfoValues, p \in PathsValues}
    \cup {Content(FALSE, TRUE, D_empty), Content(FALSE, FALSE, D_empty)}

VInit ==
    /\ POff
    /\ COff
    /\ DOff
    /\ ROff
    /\ NOff
    /\ GOff
    /\ vcontent \in {[filePath |-> "api.json", content |-> c, format |-> "json"] :
                        c \in ValidationContents}
    /\ vpc = "basic"
    /\ verrors = <<>>
    /\ vresult = None

\* validateBasicStructure(document).pipe(Effect.either), and the push
VBasic ==
    /\ vpc = "basic"
    /\ verrors' = verrors \o ErrorsOf(ValidateBasicStructure(vcontent.content))
    /\ vpc' = "version"
    /\ UNCHANGED <<vcontent, vresult, rvars, pvars, nvars, gvars, dvars, cvars>>

\* validateOpenApiVersion(document).pipe(Effect.either), the push, and the
\* early return when errors were collected
VVersion ==
    /\ vpc = "version"
    /\ verrors' = verrors \o ErrorsOf(ValidateOpenApiVersion(vcontent.content))
    /\ IF Len(verrors') > 0
       THEN /\ vresult' = [isValid |-> FALSE, hasDocument |-> FALSE, errors |-> verrors']
            /\ vpc' = "done"
       ELSE /\ vresult' = vresult
            /\ vpc' = "schema"
    /\ UNCHANGED <<vcontent, rvars, pvars, nvars, gvars, dvars, cvars>>

\* Schema.decodeUnknown(OpenApiDocumentSchema)(document) and the final result
VSchema ==
    /\ vpc = "schema"
    /\ verrors' = IF DecodesAsOpenApiDocument(vcontent.content.doc)
                  THEN verrors
                  ELSE verrors \o FormatParseErrors
    /\ vresult' = [isValid     |-> Len(verrors') = 0,
                   hasDocument |-> DecodesAsOpenApiDocument(vcontent.content.doc),
                   errors      |-> verrors']
    /\ vpc' = "done"
    /\ UNCHANGED <<vcontent, rvars, pvars, nvars, gvars, dvars, cvars>>

NextValidate ==
    \/ VBasic
    \/ VVersion
    \/ VSchema

SpecValidate == VInit /\ [][NextValidate]_vars

(***************************************************************************)
(* The naming helpers, applied to a string and then to their own results   *)
(***************************************************************************)

\* the characters of the strings: a lower-case letter, an upper-case letter,
\* a digit and the three delimiters
NameChars == {"a", "B", "1", "-", "_", " "}

\* the longest string built from NameChars
MaxNameLen == 4

N_createUser  == <<"c", "r", "e", "a", "t", "e", "U", "s", "e", "r">>
N_create_dash == <<"c", "r", "e", "a", "t", "e", "-", "u", "s", "e", "r">>
N_create_us   == <<"c", "r", "e", "a", "t", "e", "_", "u", "s", "e", "r">>
N_CreateUser  == <<"C", "r", "e", "a", "t", "e", "U", "s", "e", "r">>
N_test_api    == <<"t", "e", "s", "t", " ", "a", "p", "i">>
N_TestAPI     == <<"T", "e", "s", "t", "A", "P", "I">>
N_API_KEYS    == <<"A", "P", "I", "_", "K", "E", "Y", "S">>
N_UserProfile == <<"U", "s", "e", "r", "P", "r", "o", "f", "i", "l", "e">>

\* the four spellings that toPascalCase is to map to "CreateUser"
CreateUserSpellings == {N_createUser, N_create_dash, N_create_us, N_CreateUser}

NameInputs ==
    SeqsUpTo(NameChars, MaxNameLen)
    \cup CreateUserSpellings
    \cup {N_test_api, N_TestAPI, N_API_KEYS, N_UserProfile}

NInit ==
    /\ POff
    /\ COff
    /\ DOff
    /\ ROff
    /\ VOff
    /\ GOff
    /\ nstr \in NameInputs
    /\ npc = "apply"
    /\ nout = NoNames
    /\ nagain = NoNames

\* every helper is applied to the string
NApply ==
    /\ npc = "apply"
    /\ nout' = Names(nstr, nstr, nstr, nstr, nstr)
    /\ npc' = "again"
    /\ UNCHANGED <<nstr, nagain, rvars, pvars, vvars, gvars, dvars, cvars>>

\* every helper is applied to its own result
NAgain ==
    /\ npc = "again"
    /\ nagain' = Names(nout.schemaPascal, nout.endpointPascal, nout.httpApiPascal,
                       nout.endpointKebab, nout.httpApiKebab)
    /\ npc' = "done"
    /\ UNCHANGED <<nstr, nout, rvars, pvars, vvars, gvars, dvars, cvars>>

NextNames ==
    \/ NApply
    \/ NAgain

SpecNames == NInit /\ [][NextNames]_vars

(***************************************************************************)
(* HttpApiGenerator.generate, run twice on one IR                          *)
(***************************************************************************)

\* the most operations of an IR
MaxOps == 3

T_Users == <<"U", "s", "e", "r", "s">>

\* the tags arrays of the operations: one tag, a tag that differs in case
\* only, two tags, no tag, and the empty string as the first tag
TagsChoices == {<<T_users>>, <<T_Users>>, <<T_admin, T_users>>, <<>>, << <<>> >>}

GenMethods == <<"GET", "POST", "PUT", "DELETE", "PATCH">>

\* a path item of the IR with the given tags arrays, one operation each
GenPathItem(path, tagsList) ==
    [path       |-> path,
     operations |-> [j \in 1..Len(tagsList) |->
                        [method |-> GenMethods[j], tags |-> tagsList[j],
                         parameters |-> <<>>]]]

\* the IR whose operations have the tags arrays of tagsList: the first k under
\* one path, the others under a second path
GenApiData(tagsList, k) ==
    [NoApiData EXCEPT !.paths =
        IF k = Len(tagsList)
        THEN <<GenPathItem("/a", tagsList)>>
        ELSE <<GenPathItem("/a", SubSeq(tagsList, 1, k)),
               GenPathItem("/b", SubSeq(tagsList, k + 1, Len(tagsList)))>>]

GenApiDataUniverse ==
    {NoApiData}
    \cup UNION {{GenApiData(tagsList, k) : k \in 1..Len(tagsList)} :
                   tagsList \in SeqsUpTo(TagsChoices, MaxOps) \ {<<>>}}

GInit ==
    /\ POff
    /\ COff
    /\ DOff
    /\ ROff
    /\ VOff
    /\ NOff
    /\ gdata \in GenApiDataUniverse
    /\ grun = 1
    /\ gpc = "mkdir"
    /\ ggroups = <<>>
    /\ gidx = 1
    /\ gdir = {}
    /\ glog = <<>>
    /\ gfirst = None

\* fs.mkdir(outputDir, {recursive: true}): an existing directory is kept
GMkdir ==
    /\ gpc = "mkdir"
    /\ \E ok \in BOOLEAN : gpc' = IF ok THEN "schemas" ELSE "failed"
    /\ UNCHANGED <<gdata, grun, ggroups, gidx, gdir, glog, gfirst>>
    /\ UNCHANGED <<rvars, pvars, vvars, nvars, dvars, cvars>>

\* writeFile("schemas.ts", generateSchemasFile()), then groupOperationsByTag()
GWriteSchemas ==
    /\ gpc = "schemas"
    /\ \E ok \in BOOLEAN :
          IF ok
          THEN /\ gdir' = WriteFile(gdir, N_schemas_ts, GenerateSchemasFile(gdata))
               /\ glog' = Append(glog, N_schemas_ts)
               /\ ggroups' = GroupOperationsByTag(gdata)
               /\ gidx' = 1
               /\ gpc' = "groups"
          ELSE /\ gpc' = "failed"
               /\ UNCHANGED <<gdir, glog, ggroups, gidx>>
    /\ UNCHANGED <<gdata, grun, gfirst>>
    /\ UNCHANGED <<rvars, pvars, vvars, nvars, dvars, cvars>>

\* a loop over the groups that ends after the first group
GroupLoopFirstOnly(idx, groups) == idx <= Len(groups) /\ idx <= 1

\* for (const [tag, operations] of apiGroups): there is a next entry
GroupLoopHasNext(idx, groups) == idx <= Len(groups)

\* one iteration of for (const [tag, operations] of apiGroups)
GWriteGroup ==
    /\ gpc = "groups"
    /\ GroupLoopHasNext(gidx, ggroups)
    /\ \E ok \in BOOLEAN :
          IF ok
          THEN /\ gdir' = WriteFile(gdir, GetApiGroupFileName(ggroups[gidx].tag),
                                    GenerateApiGroupFile(ggroups[gidx].tag,
                                                         ggroups[gidx].operations))
               /\ glog' = Append(glog, GetApiGroupFileName(ggroups[gidx].tag))
               /\ gidx' = gidx + 1
               /\ gpc' = gpc
          ELSE /\ gpc' = "failed"
               /\ UNCHANGED <<gdir, glog, gidx>>
    /\ UNCHANGED <<gdata, grun, ggroups, gfirst>>
    /\ UNCHANGED <<rvars, pvars, vvars, nvars, dvars, cvars>>

\* after the loop: writeFile("index.ts", generateIndexFile(keys))
GWriteIndex ==
    /\ gpc = "groups"
    /\ ~GroupLoopHasNext(gidx, ggroups)
    /\ \E ok \in BOOLEAN :
          IF ok
          THEN /\ gdir' = WriteFile(gdir, N_index_ts,
                                    GenerateIndexFile(gdata, GroupTags(gdata)))
               /\ glog' = Append(glog, N_index_ts)
               /\ gpc' = "finished"
          ELSE /\ gpc' = "failed"
               /\ UNCHANGED <<gdir, glog>>
    /\ UNCHANGED <<gdata, grun, ggroups, gidx, gfirst>>
    /\ UNCHANGED <<rvars, pvars, vvars, nvars, dvars, cvars>>

\* a second generator is constructed on the same IR and generate() is called
\* again, on the same output directory or on an empty one
GAgain ==
    /\ gpc = "finished"
    /\ grun = 1
    /\ gfirst' = Right([dir |-> gdir, log |-> glog])
    /\ grun' = 2
    /\ gpc' = "mkdir"
    /\ ggroups' = <<>>
    /\ gidx' = 1
    /\ glog' = <<>>
    /\ \E sameDir \in BOOLEAN : gdir' = IF sameDir THEN gdir ELSE {}
    /\ UNCHANGED gdata
    /\ UNCHANGED <<rvars, pvars, vvars, nvars, dvars, cvars>>

NextGenerate ==
    \/ GMkdir
    \/ GWriteSchemas
    \/ GWriteGroup
    \/ GWriteIndex
    \/ GAgain

SpecGenerate == GInit /\ [][NextGenerate]_vars

(***************************************************************************)
(* readOpenApiFile, one call, step by step                                 *)
(***************************************************************************)

E_JSON == <<".", "J", "S", "O", "N">>
E_none == <<>>

\* the files at the path: there or not, with an extension of either case, a
\* foreign one or none, with a text that parses or not, to an object or not
ReadFiles ==
    {File("spec", exists, ext, syntaxOk, isObject, IF isObject THEN D_valid ELSE D_empty) :
        exists \in BOOLEAN,
        ext \in {E_json, E_JSON, E_yaml, E_yml, E_YAML, E_txt, E_none},
        syntaxOk \in BOOLEAN, isObject \in BOOLEAN}

DInit ==
    /\ POff
    /\ COff
    /\ ROff
    /\ VOff
    /\ NOff
    /\ GOff
    /\ dfile \in ReadFiles
    /\ dpc = "exists"
    /\ dops = <<>>
    /\ dresult = None

\* const exists = yield* fs.exists(filePath); if (!exists) yield* Effect.fail
DExists ==
    /\ dpc = "exists"
    /\ dops' = Append(dops, "exists")
    /\ IF ~dfile.exists
       THEN /\ dresult' = Left(Err("FileDoesNotExist", ""))
            /\ dpc' = "done"
       ELSE /\ dresult' = dresult
            /\ dpc' = "format"
    /\ UNCHANGED <<dfile, rvars, pvars, vvars, nvars, gvars, cvars>>

\* if (!isJsonFormat(filePath) && !isYamlFormat(filePath)) yield* Effect.fail
DFormat ==
    /\ dpc = "format"
    /\ IF ~IsJsonFormat(dfile) /\ ~IsYamlFormat(dfile)
       THEN /\ dresult' = Left(Err("UnsupportedFileFormat", ""))
            /\ dpc' = "done"
       ELSE /\ dresult' = dresult
            /\ dpc' = "read"
    /\ UNCHANGED <<dfile, dops, rvars, pvars, vvars, nvars, gvars, cvars>>

\* const fileContent = yield* fs.readFileString(filePath), which can fail with
\* the error of the platform
DReadString ==
    /\ dpc = "read"
    /\ dops' = Append(dops, "readFileString")
    /\ \E ok \in BOOLEAN :
          IF ok
          THEN /\ dresult' = dresult
               /\ dpc' = "parse"
          ELSE /\ dresult' = Left(Err("PlatformError", ""))
               /\ dpc' = "done"
    /\ UNCHANGED <<dfile, rvars, pvars, vvars, nvars, gvars, cvars>>

\* parseJsonContent or parseYamlContent by the extension, then the format tag
DParse ==
    /\ dpc = "parse"
    /\ dops' = Append(dops, IF IsJsonFormat(dfile) THEN "JSON.parse" ELSE "yaml.load")
    /\ dresult' = IF ~dfile.syntaxOk
                  THEN Left(Err("FailedToParse", ""))
                  ELSE Right(FileContent(dfile))
    /\ dpc' = "done"
    /\ UNCHANGED <<dfile, rvars, pvars, vvars, nvars, gvars, cvars>>

NextRead ==
    \/ DExists
    \/ DFormat
    \/ DReadString
    \/ DParse

SpecRead == DInit /\ [][NextRead]_vars

(***************************************************************************)
(* classifyReferences, one call                                            *)
(***************************************************************************)

\* the longest list of references handed to classifyReferences
MaxClassify == 3

R_hashSlash == <<"#", "/">>
R_hash      == <<"#">>
R_empty     == <<>>

\* internal references, references that begin like one, relative and
\* absolute references and the empty string
ClassifyRefs ==
    {R_user, R_hashSlash, R_hash, R_anchor, R_empty, R_relative,
     Url(S_https, H_api_example, <<>>, P_schema)}

\* the states of every specification over cin, cpc, cout start from
CallInit ==
    /\ POff
    /\ ROff
    /\ VOff
    /\ NOff
    /\ GOff
    /\ DOff
    /\ cpc = "call"
    /\ cout = <<>>

KInit ==
    /\ CallInit
    /\ cin \in SeqsUpTo(ClassifyRefs, MaxClassify)

\* classifyReferences(referencePaths)
KClassify ==
    /\ cpc = "call"
    /\ cout' = ClassifyReferences(cin)
    /\ cpc' = "done"
    /\ UNCHANGED <<cin, rvars, pvars, vvars, nvars, gvars, dvars>>

NextClassify == KClassify

SpecClassify == KInit /\ [][NextClassify]_vars


-----------------------------------------------------------------------------
(* Properties of resolveReferences (checked under SpecResolve).            *)

Verdict(ref) == ValidateExternalUrl(ref, ropts)

DocExternal == ClassifyReferences(rdoc.refs).external

\* the reference is a URL whose scheme is neither http nor https
NonHttpScheme(ref) ==
    /\ ParseUrl(ref).ok
    /\ ParseUrl(ref).protocol \notin HttpProtocols

\* the reference is an http or https URL
HttpUrl(ref) ==
    /\ ParseUrl(ref).ok
    /\ ParseUrl(ref).protocol \in HttpProtocols

\* C5: in full mode no fetch starts before every external reference of the
\* document has been handed to the gate and has passed it, and once the gate
\* has rejected a reference the call has failed and nothing was fetched.
C5_GateBeforeAnyFetch ==
    ropts.resolveExternal =>
        /\ rfetched # <<>> =>
              /\ Range(DocExternal) \subseteq Range(rgated)
              /\ \A i \in 1..Len(rgated) : Verdict(rgated[i]) = "Ok"
        /\ (\E i \in 1..Len(rgated) : Verdict(rgated[i]) # "Ok") =>
              /\ rfetched = <<>>
              /\ rpc = "done"
              /\ rresult.tag = "Left"
              /\ rresult.error \in {"InvalidUrl", "UnsafeProtocol", "PrivateAddress", "DomainNotAllowed"}

\* a reference passed the gate, a later one was rejected, nothing was fetched
C5_Witness ==
    /\ ropts.resolveExternal
    /\ rpc = "done"
    /\ Len(rgated) = 2
    /\ Verdict(rgated[1]) = "Ok"
    /\ Verdict(rgated[2]) # "Ok"
    /\ rresult.tag = "Left"
    /\ rfetched = <<>>

\* C6 as claimed: in full mode a document that contains an external reference
\* with a scheme other than http and https fails with UnsafeProtocol and the
\* referenced resource is never read.
C6_Original ==
    (/\ ropts.resolveExternal
     /\ rpc = "done"
     /\ \E i \in 1..Len(DocExternal) : NonHttpScheme(DocExternal[i]))
    => /\ rresult = Left("UnsafeProtocol")
       /\ \A i \in 1..Len(DocExternal) :
             NonHttpScheme(DocExternal[i]) => DocExternal[i] \notin Range(rfetched)

\* C6 amended: such a document always fails and nothing of it is ever read;
\* the error is UnsafeProtocol unless the gate rejects an earlier external
\* reference of the document for another reason.
C6_UnsafeProtocolRejected ==
    ropts.resolveExternal =>
        \A i \in 1..Len(DocExternal) :
            NonHttpScheme(DocExternal[i]) =>
                /\ rfetched = <<>>
                /\ rpc = "done" =>
                      /\ rresult.tag = "Left"
                      /\ (\A j \in 1..(i - 1) :
                              Verdict(DocExternal[j]) \in {"Ok", "UnsafeProtocol"})
                         => rresult = Left("UnsafeProtocol")

\* a reference that passes the gate precedes file:///etc/passwd, which is rejected
C6_Witness ==
    /\ ropts.resolveExternal
    /\ rpc = "done"
    /\ Len(rgated) = 2
    /\ Verdict(rgated[1]) = "Ok"
    /\ rgated[2] = R_file_passwd
    /\ rresult = Left("UnsafeProtocol")
    /\ rfetched = <<>>

\* the host a URL names: the hostname without the brackets of an IPv6 literal
HostNamed(ref) ==
    LET hn == ParseUrl(ref).hostname
    IN  IF Len(hn) > 1 /\ hn[1] = "[" THEN SubSeq(hn, 2, Len(hn) - 1) ELSE hn

\* 172.16. to 172.31.
Prefixes172 ==
    {<<"1", "7", "2", ".", "1", d, ".">> : d \in {"6", "7", "8", "9"}}
    \cup {<<"1", "7", "2", ".", "2", d, ".">> : d \in DigitChars}
    \cup {<<"1", "7", "2", ".", "3", d, ".">> : d \in {"0", "1"}}

\* the loopback, private and link-local classes the gate is to reject
InPrivateClasses(h) ==
    \/ h \in {<<"l", "o", "c", "a", "l", "h", "o", "s", "t">>,
              <<"1", "2", "7", ".", "0", ".", "0", ".", "1">>,
              <<":", ":", "1">>,
              <<"0", ".", "0", ".", "0", ".", "0">>}
    \/ StartsWith(h, <<"1", "0", ".">>)
    \/ StartsWith(h, <<"1", "9", "2", ".", "1", "6", "8", ".">>)
    \/ \E p \in Prefixes172 : StartsWith(h, p)
    \/ StartsWith(h, <<"1", "6", "9", ".", "2", "5", "4", ".">>)
    \/ EndsWith(h, <<".", "l", "o", "c", "a", "l">>)

\* C7 as claimed: in full mode the gate rejects an http or https reference with
\* PrivateAddress when its hostname is loopback, private or link-local
\* (localhost, 127.0.0.1, ::1, 10.*, 172.16.* to 172.31.*, 192.168.*,
\* 169.254.*, 0.0.0.0, *.local), and a hostname outside these classes passes
\* this check.
C7_PrivateAddressRejected ==
    ropts.resolveExternal =>
        \A i \in 1..Len(rgated) :
            HttpUrl(rgated[i]) =>
                (InPrivateClasses(HostNamed(rgated[i])) <=> Verdict(rgated[i]) = "PrivateAddress")

\* the claim's rule for the allow-list: equal to a domain, or a subdomain of it
HostAllowed(h, domains) ==
    \E k \in 1..Len(domains) :
        \/ h = domains[k]
        \/ /\ Len(h) > Len(domains[k])
           /\ h[Len(h) - Len(domains[k])] = "."
           /\ SubSeq(h, Len(h) - Len(domains[k]) + 1, Len(h)) = domains[k]

AllowListConfigured == ropts.hasAllowedDomains /\ ropts.allowedDomains # <<>>

\* C8 as claimed: with a non-empty allow-list a reference passes the gate only
\* if its hostname is an allowed domain or a subdomain of one, any other
\* hostname fails with DomainNotAllowed, and with an empty or absent list no
\* domain restriction is applied.
C8_Original ==
    ropts.resolveExternal =>
        \A i \in 1..Len(rgated) :
            HttpUrl(rgated[i]) =>
                LET h == ParseUrl(rgated[i]).hostname
                IN  IF AllowListConfigured
                    THEN /\ Verdict(rgated[i]) = "Ok" => HostAllowed(h, ropts.allowedDomains)
                         /\ ~HostAllowed(h, ropts.allowedDomains)
                                => Verdict(rgated[i]) = "DomainNotAllowed"
                    ELSE Verdict(rgated[i]) # "DomainNotAllowed"

\* C8 amended: as claimed, except that a hostname outside the allow-list fails
\* with DomainNotAllowed only if the private-address test, which runs first,
\* has not already rejected it with PrivateAddress.
C8_AllowList ==
    ropts.resolveExternal =>
        \A i \in 1..Len(rgated) :
            HttpUrl(rgated[i]) =>
                LET h == ParseUrl(rgated[i]).hostname
                IN  IF AllowListConfigured
                    THEN /\ Verdict(rgated[i]) = "Ok" => HostAllowed(h, ropts.allowedDomains)
                         /\ ~HostAllowed(h, ropts.allowedDomains)
                                => Verdict(rgated[i]) \in {"PrivateAddress", "DomainNotAllowed"}
                         /\ (~HostAllowed(h, ropts.allowedDomains) /\ Verdict(rgated[i]) # "PrivateAddress")
                                => Verdict(rgated[i]) = "DomainNotAllowed"
                    ELSE Verdict(rgated[i]) # "DomainNotAllowed"

\* a subdomain of an allowed domain passed the gate and notexample.com, which
\* only ends with the domain's letters, was rejected
C8_Witness ==
    /\ ropts.resolveExternal
    /\ ropts.allowedDomains = <<H_example>>
    /\ Len(rgated) = 2
    /\ ParseUrl(rgated[1]).hostname = H_api_example
    /\ ParseUrl(rgated[2]).hostname = H_notexample
    /\ rresult = Left("DomainNotAllowed")

-----------------------------------------------------------------------------
(* Properties of the per-file pipeline, the batch policies and the handler *)
(* (checked under Spec).                                                    *)

StageIndex(stage) == CHOOSE k \in 1..Len(Stages) : Stages[k] = stage

PipeIndices == 1..Len(files)

\* the stages of file i have run in the fixed order, none of them twice: the
\* first is reading, each next one is the successor of the one before, and
\* only validation is ever left out (by skipValidation)
InFixedOrder(i) ==
    LET ran == pipe[i].ran
    IN  /\ Len(ran) > 0 => ran[1].stage = "reading"
        /\ \A k \in 1..(Len(ran) - 1) :
              \/ StageIndex(ran[k + 1].stage) = StageIndex(ran[k].stage) + 1
              \/ /\ popts.skipValidation
                 /\ ran[k].stage = "reading"
                 /\ ran[k + 1].stage = "resolution"

\* generateHttpApi has been called
GenerationStarted ==
    /\ mode = "cli"
    /\ \/ cli.pc \in {"generate", "done"}
       \/ cli.written # <<>>
       \/ cli.error.kind = "FailedToWriteFile"

AllFourSucceeded(i) ==
    /\ Len(pipe[i].ran) = Len(Stages)
    /\ \A k \in 1..Len(Stages) : pipe[i].ran[k].stage = Stages[k] /\ pipe[i].ran[k].ok

\* a validation failure that continueOnValidationError lets the pipeline pass
Tolerated(entry) ==
    entry.stage = "validation" /\ popts.continueOnValidationError

\* C1 as stated: the stages of a file run in the order reading, validation,
\* resolution, extraction, each at most once; after a stage has failed no
\* later stage of that file runs; generation is started only after all four
\* stages of the input file succeeded
C1_Original ==
    /\ \A i \in PipeIndices :
          /\ InFixedOrder(i)
          /\ \A k \in 1..(Len(pipe[i].ran) - 1) : pipe[i].ran[k].ok
    /\ GenerationStarted => AllFourSucceeded(1)

\* C1: the stages of a file run in the order reading, validation, resolution,
\* extraction, each at most once; after a stage has failed no later stage of
\* that file runs, except after a validation failure when
\* continueOnValidationError is true; generation is started only after all
\* four stages of the input file succeeded
C1_StageOrder ==
    /\ \A i \in PipeIndices :
          /\ InFixedOrder(i)
          /\ \A k \in 1..(Len(pipe[i].ran) - 1) :
                pipe[i].ran[k].ok \/ Tolerated(pipe[i].ran[k])
    /\ GenerationStarted => AllFourSucceeded(1)

\* a pipeline that validation stopped: reading ran, validation failed, and
\* neither resolution nor extraction ran
C1_Witness ==
    \E i \in PipeIndices :
       /\ pipe[i].pc = "done"
       /\ Len(pipe[i].ran) = 2
       /\ pipe[i].ran[1].ok
       /\ pipe[i].ran[2].stage = "validation"
       /\ ~pipe[i].ran[2].ok

FailedIndices == {i \in PipeIndices : pipe[i].result.tag = "Left"}

\* the first stage of file i that failed
FirstFailedStage(i) ==
    LET ran == pipe[i].ran
    IN  ran[Min({k \in 1..Len(ran) : ~ran[k].ok})].stage

\* C2 as stated: the ParseError of a failed pipeline carries the input file
\* path, the first stage that failed, a message and the underlying cause
C2_Original ==
    \A i \in FailedIndices :
       LET e == pipe[i].result.error
       IN  /\ e.filePath = files[i].path
           /\ e.stage = FirstFailedStage(i)
           /\ \E k \in 1..Len(pipe[i].ran) :
                 /\ pipe[i].ran[k].stage = e.stage
                 /\ e.cause = pipe[i].ran[k].error
           /\ e.message = <<MessagePrefix[e.stage], e.cause.kind, e.cause.at>>

\* C2: the ParseError of a failed pipeline carries the input file path, the
\* stage whose failure ended the pipeline (the first stage that failed, a
\* validation failure let pass by continueOnValidationError not counted), a
\* message built from that stage and its error, and that error as the cause
C2_ParseError ==
    \A i \in FailedIndices :
       LET e    == pipe[i].result.error
           ran  == pipe[i].ran
           last == ran[Len(ran)]
       IN  /\ e.filePath = files[i].path
           /\ ~last.ok
           /\ e.stage = last.stage
           /\ \A k \in 1..(Len(ran) - 1) : ran[k].ok \/ Tolerated(ran[k])
           /\ e.cause = last.error
           /\ e.cause # NoErr
           /\ e.message = <<MessagePrefix[e.stage], e.cause.kind, e.cause.at>>

\* a pipeline that went on after a failed validation and failed in extraction
C2_Witness ==
    \E i \in FailedIndices :
       /\ pipe[i].result.error.stage = "extraction"
       /\ \E k \in 1..Len(pipe[i].ran) :
             pipe[i].ran[k].stage = "validation" /\ ~pipe[i].ran[k].ok

SucceededIndices == {i \in PipeIndices : pipe[i].result.tag = "Right"}

\* the k-th smallest member of a set of input positions
Nth(S, k) == CHOOSE i \in S : Cardinality({j \in S : j <= i}) = k

\* the ParseErrors of the failed files, in input order
ExpectedFailures ==
    [k \in 1..Cardinality(FailedIndices) |-> pipe[Nth(FailedIndices, k)].result.error]

\* the ParseResults of the files that succeeded, in input order
ExpectedSuccesses ==
    [k \in 1..Cardinality(SucceededIndices) |-> pipe[Nth(SucceededIndices, k)].result.value]

\* C3 as stated: under the fail-fast policy, once the pipeline of one file has
\* failed the pipelines of the other files are not carried on
C3_Original ==
    [][(mode = "failfast" /\ FailedIndices # {}) => pipe' = pipe]_vars

\* C3: under the fail-fast policy the pipeline of every file runs to its own
\* end; the batch then fails as a whole if any pipeline failed, with one
\* aggregate error that lists the ParseError of every failed file in input
\* order and holds no successful result; otherwise it returns every result
C3_FailFast ==
    (mode = "failfast" /\ batch # None) =>
        /\ \A i \in PipeIndices : pipe[i].pc = "done"
        /\ IF FailedIndices # {}
           THEN batch = Left(ExpectedFailures)
           ELSE batch = Right(ExpectedSuccesses)

\* a failed batch of two files of which one succeeded
C3_Witness ==
    /\ mode = "failfast"
    /\ batch.tag = "Left"
    /\ Len(files) = 2
    /\ Cardinality(FailedIndices) = 1
    /\ Cardinality(SucceededIndices) = 1

\* what the last stage to run makes of one resolution result
AfterResolution(file, fileContent, document, validationErrors, resolutionResult) ==
    IF resolutionResult.tag = "Left"
    THEN Left(ParseError(file.path, "resolution", Err(resolutionResult.error, "")))
    ELSE LET extractionResult == ExtractApiData(resolutionResult.value.resolved)
         IN  IF extractionResult.tag = "Left"
             THEN Left(ParseError(file.path, "extraction", extractionResult.error))
             ELSE Right(ParseResult(fileContent, document, validationErrors,
                                    resolutionResult.value, extractionResult.value))

\* every outcome parseOpenApiFile(file, opts) can have when it is the only
\* pipeline running
ParseOutcomes(file, opts) ==
    LET read == ReadAndValidateOpenApiFile(file)
    IN  IF read.tag = "Left"
        THEN {Left(ParseError(file.path, "reading", read.error))}
        ELSE LET fileContent == read.value
                 validation  == ValidateOpenApiDocumentStrict(fileContent)
                 invalid     == ~opts.skipValidation /\ validation.tag = "Left"
                 document    == fileContent.content.doc
             IN  IF invalid /\ ~opts.continueOnValidationError
                 THEN {Left(ParseError(file.path, "validation", validation.error))}
                 ELSE {AfterResolution(file, fileContent, document,
                                       IF invalid THEN <<validation.error>> ELSE <<>>, r) :
                          r \in ResolveOutcomes(document, ResolutionOptions(opts))}

\* C4: under the error-collecting policy the batch never fails; the two lists
\* together hold one entry per input file, successes and failures each in
\* input order, and the entry of a file is an outcome that its pipeline has
\* when run alone
C4_CollectErrors ==
    (mode = "collect" /\ batch # None) =>
        /\ batch.tag = "Right"
        /\ Len(batch.value.successes) + Len(batch.value.failures) = Len(files)
        /\ batch.value.successes = ExpectedSuccesses
        /\ batch.value.failures = ExpectedFailures
        /\ \A i \in PipeIndices : pipe[i].result \in ParseOutcomes(files[i], popts)

\* a collected batch of two files, one in each list
C4_Witness ==
    /\ mode = "collect"
    /\ batch.tag = "Right"
    /\ Len(files) = 2
    /\ Len(batch.value.successes) = 1
    /\ Len(batch.value.failures) = 1

\* the parameters of an extracted document: of its operations, of its paths
\* and of its components
ExtractedParameters(apiData) ==
    UNION {Range(apiData.paths[i].parameters) : i \in 1..Len(apiData.paths)}
    \cup UNION {UNION {Range(apiData.paths[i].operations[j].parameters) :
                          j \in 1..Len(apiData.paths[i].operations)} :
                   i \in 1..Len(apiData.paths)}
    \cup {apiData.components.parameters[i].param :
             i \in 1..Len(apiData.components.parameters)}

\* C10: in the extracted data of every successful pipeline, every parameter
\* has a boolean `required`, and every parameter located in the path has
\* `required` true
C10_PathParamsRequired ==
    \A i \in SucceededIndices :
       \A p \in ExtractedParameters(pipe[i].result.value.extractedData) :
          /\ p.required.t = "boolean"
          /\ p.in = "path" => p.required = JsBool(TRUE)


(***************************************************************************)
(* Properties of validateOpenApiDocument                                   *)
(***************************************************************************)

\* the step-by-step call returns what the function returns
VResultIsFunction ==
    vpc = "done" => vresult = ValidateOpenApiDocument(vcontent)

ErrorPaths(errors) == {errors[k].path : k \in 1..Len(errors)}

\* the basic fields of a document that are missing or mistyped, by the
\* conditions of the four checks (info.title and info.version are fields of
\* an info object, so they apply when info is one)
ApplicableBasicPaths(document) ==
    {"info" : x \in {1} \ {IF document.info.present THEN 1 ELSE 0}}
    \cup {"info.title" : x \in {1} \ {IF document.info.present
                                         /\ document.info.title.t # "string" THEN 0 ELSE 1}}
    \cup {"info.version" : x \in {1} \ {IF document.info.present
                                           /\ document.info.version.t # "string" THEN 0 ELSE 1}}
    \cup {"paths" : x \in {1} \ {IF document.paths.present THEN 1 ELSE 0}}

\* C11: basic-structure validation collects all applicable errors: each of
\* info, info.title, info.version and paths that is missing or mistyped has
\* its own error in the result (so an info without version always has an
\* error at path "info.version")
C11_AllBasicErrors ==
    (vpc = "done" /\ vcontent.content.isObject)
        => ApplicableBasicPaths(vcontent.content.doc) \subseteq ErrorPaths(vresult.errors)

\* the openapi field is a string whose first two characters are "3" and "."
VersionIs3x(document) ==
    /\ document.openapi.t = "string"
    /\ Len(document.openapi.s) >= 2
    /\ document.openapi.s[1] = "3"
    /\ document.openapi.s[2] = "."

\* C12: the version check passes exactly when openapi is a string beginning
\* with "3."; for every other value (other strings, absent, not a string) the
\* result has an error at path "openapi" and isValid is false
C12_VersionCheck ==
    (vpc = "done" /\ vcontent.content.typeofObject)
        => IF VersionIs3x(vcontent.content.doc)
           THEN "openapi" \notin ErrorPaths(vresult.errors)
           ELSE /\ "openapi" \in ErrorPaths(vresult.errors)
                /\ ~vresult.isValid

\* a call on a document with openapi "4.0.0" and nothing else wrong has
\* returned with the version error
C12_Witness ==
    /\ vpc = "done"
    /\ vcontent.content.doc.openapi = JsStr(V_4_0_0)
    /\ ApplicableBasicPaths(vcontent.content.doc) = {}
    /\ ErrorPaths(vresult.errors) = {"openapi"}
    /\ ~vresult.isValid

(***************************************************************************)
(* Properties of the validation stage of parseOpenApiFile                  *)
(***************************************************************************)

\* the validation stage of file i ran and failed
ValidationFailed(i) ==
    \E k \in 1..Len(pipe[i].ran) :
        pipe[i].ran[k].stage = "validation" /\ ~pipe[i].ran[k].ok

\* the stages of file i that were attempted
Attempted(i) == {pipe[i].ran[k].stage : k \in 1..Len(pipe[i].ran)}

\* C13: when validation fails: with continueOnValidationError false the parse
\* fails at stage validation, and neither resolution nor extraction is
\* attempted; with continueOnValidationError true the pipeline goes on to
\* resolution with the raw document, and a ParseResult it produces has isValid
\* false and non-empty validationErrors
C13_ValidationFailure ==
    \A i \in PipeIndices :
       ValidationFailed(i) =>
          IF ~popts.continueOnValidationError
          THEN /\ pipe[i].pc = "done"
               /\ pipe[i].result.tag = "Left"
               /\ pipe[i].result.error.stage = "validation"
               /\ pipe[i].result.error.filePath = files[i].path
               /\ Attempted(i) \cap {"resolution", "extraction"} = {}
          ELSE /\ pipe[i].validatedDocument = pipe[i].fileContent.content.doc
               /\ pipe[i].pc \in {"resolve", "extract", "done"}
               /\ pipe[i].pc \in {"extract", "done"} => "resolution" \in Attempted(i)
               /\ pipe[i].result.tag = "Left" => pipe[i].result.error.stage # "validation"
               /\ pipe[i].result.tag = "Right" =>
                     /\ ~pipe[i].result.value.isValid
                     /\ Len(pipe[i].result.value.validationErrors) > 0
                     /\ pipe[i].result.value.originalDocument
                            = pipe[i].fileContent.content.doc

\* a file whose validation failed has been parsed to a ParseResult under
\* continueOnValidationError
C13_Witness ==
    \E i \in PipeIndices :
       /\ ValidationFailed(i)
       /\ popts.continueOnValidationError
       /\ pipe[i].pc = "done"
       /\ pipe[i].result.tag = "Right"
       /\ ~pipe[i].result.value.isValid

(***************************************************************************)
(* Properties of the naming helpers                                        *)
(***************************************************************************)

\* C18: toPascalCase and toKebabCase are idempotent on every input;
\* toPascalCase maps "createUser", "create-user", "create_user" and
\* "CreateUser" to "CreateUser"; the copies of toPascalCase in
\* SchemaGenerator, EndpointGenerator and HttpApiGenerator agree on every input
C18_Names ==
    /\ npc \in {"again", "done"} =>
          /\ nout.schemaPascal = nout.endpointPascal
          /\ nout.endpointPascal = nout.httpApiPascal
          /\ nstr \in CreateUserSpellings =>
                /\ nout.schemaPascal = N_CreateUser
                /\ nout.endpointPascal = N_CreateUser
                /\ nout.httpApiPascal = N_CreateUser
    /\ npc = "done" => nagain = nout

\* the helpers have been applied twice to a string that they change
C18_Witness ==
    /\ npc = "done"
    /\ nstr = N_create_us
    /\ nout.httpApiPascal = N_CreateUser
    /\ nout.httpApiKebab = N_create_dash
    /\ nagain = nout

(***************************************************************************)
(* Properties of HttpApiGenerator.generate                                 *)
(***************************************************************************)

\* apiGroups has been computed in this run
Grouped == gpc \in {"groups", "finished"}

\* the first tag of an operation, "default" when the operation has no tag
FirstTagIfAny(operation) ==
    IF Len(operation.tags) > 0 THEN operation.tags[1] ELSE T_default

\* the first tag of an operation, "default" when the operation has no tag or
\* its first tag is the empty string
FirstNonEmptyTag(operation) ==
    IF Len(operation.tags) > 0 /\ Len(operation.tags[1]) > 0
    THEN operation.tags[1]
    ELSE T_default

\* groups partitions the entries by Key: the keys of the groups are distinct,
\* every entry has a group, and a group holds the entries of its key, all of
\* them, once each, in the order of the entries
PartitionedBy(groups, entries, Key(_)) ==
    /\ \A g, h \in 1..Len(groups) : groups[g].tag = groups[h].tag => g = h
    /\ \A k \in 1..Len(entries) :
          \E g \in 1..Len(groups) : groups[g].tag = Key(entries[k].operation)
    /\ \A g \in 1..Len(groups) :
          /\ groups[g].operations # <<>>
          /\ groups[g].operations
                = SelectSeq(entries, LAMBDA e : Key(e.operation) = groups[g].tag)

\* C14 as stated: every operation is in exactly one group, keyed by its first
\* tag, or by "default" when it has no tag; the operations of a group are in
\* declared order
C14_Original ==
    Grouped => PartitionedBy(ggroups, OperationsInOrder(gdata), FirstTagIfAny)

\* C14: groupOperationsByTag places every operation in exactly one group,
\* keyed by its first tag, or by "default" when it has no tag or its first tag
\* is the empty string; operations with the same first tag are in the same
\* group, in their declared order
C14_Grouping ==
    Grouped => PartitionedBy(ggroups, OperationsInOrder(gdata), FirstNonEmptyTag)

\* three operations were grouped: two of one tag with an untagged one between
\* them
C14_Witness ==
    /\ Grouped
    /\ Len(OperationsInOrder(gdata)) = 3
    /\ OperationsInOrder(gdata)[1].operation.tags = <<T_users>>
    /\ OperationsInOrder(gdata)[2].operation.tags = <<>>
    /\ OperationsInOrder(gdata)[3].operation.tags = <<T_users>>
    /\ Len(ggroups) = 2
    /\ Len(ggroups[1].operations) = 2
    /\ ggroups[2].tag = T_default

\* the files of the output directory with the given name
FilesNamed(dir, name) == {e \in dir : e.name = name}

\* the group files of the output directory
GroupFiles(dir) == {e \in dir : e.content.kind = "group"}

\* the files of the output directory that hold exactly the operations of group
HoldingGroup(dir, group) ==
    {e \in GroupFiles(dir) :
        e.content.tag = group.tag /\ e.content.operations = group.operations}

\* the files that an import of index.ts resolves to
ImportedBy(dir, import) ==
    {e \in dir : ReplaceFirst(e.name, N_dot_ts, N_dot_js) = import.from}

\* index.ts imports and instantiates the groups: the k-th import resolves to
\* a file that holds the k-th group, under a class name of its own, and the
\* k-th instance is of that class
IndexCoversGroups(dir, groups) ==
    \A e \in FilesNamed(dir, N_index_ts) :
       /\ Len(e.content.imports) = Len(groups)
       /\ Len(e.content.instances) = Len(groups)
       /\ \A k \in 1..Len(groups) :
             /\ ImportedBy(dir, e.content.imports[k]) \cap HoldingGroup(dir, groups[k]) # {}
             /\ e.content.instances[k] = e.content.imports[k].className
             /\ \A j \in 1..Len(groups) :
                   e.content.imports[j].className = e.content.imports[k].className
                      => j = k

\* C15: after a successful generation into an empty directory the directory
\* holds exactly one schemas.ts, one artifact per tag group with the
\* operations of that group only, and one index.ts that imports and
\* instantiates every group, whatever the distinct tags are
C15_OneArtifactPerGroup ==
    (gpc = "finished" /\ grun = 1) =>
       /\ Cardinality(FilesNamed(gdir, N_schemas_ts)) = 1
       /\ Cardinality(FilesNamed(gdir, N_index_ts)) = 1
       /\ Cardinality(GroupFiles(gdir)) = Len(ggroups)
       /\ \A g \in 1..Len(ggroups) : Cardinality(HoldingGroup(gdir, ggroups[g])) = 1
       /\ IndexCoversGroups(gdir, ggroups)

C16_NoPartialArtifacts ==
    (mode = "cli" /\ cli.pc = "failed") => cli.written = <<>>

(***************************************************************************)
(* Properties of readOpenApiFile                                           *)
(***************************************************************************)

JsonExtensions == {E_json, E_JSON}
YamlExtensions == {E_yaml, E_yml, E_YAML}

\* the call has ended with the error of the given kind
ReadFailedWith(kind) ==
    dpc = "done" /\ dresult.tag = "Left" /\ dresult.error.kind = kind

\* the content of the file was read or parsed
ContentTouched ==
    \E k \in 1..Len(dops) : dops[k] \in {"readFileString", "JSON.parse", "yaml.load"}

\* C20 as stated: the call fails with NotFound when the path does not exist
\* and with UnsupportedFormat for every extension other than .json, .yaml and
\* .yml
C20_Original ==
    dpc = "done" =>
       /\ ~dfile.exists => ReadFailedWith("FileDoesNotExist")
       /\ dfile.ext \notin (JsonExtensions \cup YamlExtensions)
             => ReadFailedWith("UnsupportedFileFormat")

\* C20: readOpenApiFile fails with NotFound exactly when the path does not
\* exist, and with UnsupportedFormat exactly when the file exists and its
\* extension is none of .json, .yaml, .yml (in either case of the letters);
\* in both cases the content is neither read nor parsed; on success the format
\* tag is the one of the extension, json for .json and yaml for .yaml and
\* .yml, whatever the content is
C20_Read ==
    /\ dpc = "done" =>
          /\ ReadFailedWith("FileDoesNotExist") <=> ~dfile.exists
          /\ ReadFailedWith("UnsupportedFileFormat")
                <=> (dfile.exists /\ dfile.ext \notin (JsonExtensions \cup YamlExtensions))
          /\ dresult.tag = "Right" =>
                /\ dresult.value.format = "json" <=> dfile.ext \in JsonExtensions
                /\ dresult.value.format = "yaml" <=> dfile.ext \in YamlExtensions
                /\ dresult.value.filePath = dfile.path
    /\ (ReadFailedWith("FileDoesNotExist") \/ ReadFailedWith("UnsupportedFileFormat"))
          => ~ContentTouched
    /\ ContentTouched =>
          (dfile.exists /\ dfile.ext \in (JsonExtensions \cup YamlExtensions))

\* a call on an existing file with a foreign extension has failed before the
\* content was read
C20_Witness ==
    /\ dfile.exists
    /\ dfile.ext = E_txt
    /\ ReadFailedWith("UnsupportedFileFormat")
    /\ dops = <<"exists">>

(***************************************************************************)
(* Properties of the objects of resolveReferences                          *)
(***************************************************************************)

\* C17: no stage mutates its input: after resolveReferences has returned, in
\* either mode, the document passed in (which ResolvedDocument.original refers
\* to) is exactly as it was before resolution, unaffected by the
\* dereferencing that produced ResolvedDocument.resolved
C17_InputUnchanged ==
    (rpc = "done" /\ rresult.tag = "Right") => robj = rdoc

(***************************************************************************)
(* Properties of classifyReferences                                        *)
(***************************************************************************)

\* the reference begins with the two characters "#/"
BeginsHashSlash(ref) == Len(ref) >= 2 /\ ref[1] = "#" /\ ref[2] = "/"

BeginsOtherwise(ref) == ~BeginsHashSlash(ref)

\* the number of positions of seq that hold x
Occurrences(seq, x) == Cardinality({i \in 1..Len(seq) : seq[i] = x})

\* C21: classifyReferences partitions a list of reference strings: internal
\* holds exactly the references that begin with "#/", external all the
\* others, every occurrence is in exactly one of the two lists, and each list
\* keeps the order of the input
C21_Partition ==
    cpc = "done" =>
       /\ cout.internal = SelectSeq(cin, BeginsHashSlash)
       /\ cout.external = SelectSeq(cin, BeginsOtherwise)
       /\ Len(cout.internal) + Len(cout.external) = Len(cin)
       /\ \A x \in Range(cin) :
             /\ Occurrences(cout.internal, x) + Occurrences(cout.external, x)
                   = Occurrences(cin, x)
             /\ Occurrences(cout.internal, x) = 0 \/ Occurrences(cout.external, x) = 0

\* a list with a repeated internal reference around a relative one and a
\* reference that begins with "#" only has been classified
C21_Witness ==
    /\ cpc = "done"
    /\ cin = <<R_user, R_relative, R_user>>
    /\ cout.internal = <<R_user, R_user>>
    /\ cout.external = <<R_relative>>

\* both checks that precede the grammar validation passed
BasicChecksPassed ==
    /\ ValidateBasicStructure(vcontent.content).tag = "Right"
    /\ ValidateOpenApiVersion(vcontent.content).tag = "Right"

\* C22: validateOpenApiDocument always ends with a ValidationResult, never
\* with a failure; in the result isValid is true exactly when errors is empty,
\* document is present only when the grammar validation ran and succeeded (so
\* isValid implies that document is present), and the grammar validation runs
\* only when the basic-structure check and the version check both passed
C22_ValidationResult ==
    /\ [](vpc = "done" =>
            /\ vresult # None
            /\ vresult.isValid <=> (Len(vresult.errors) = 0)
            /\ vresult.isValid => vresult.hasDocument
            /\ vresult.hasDocument =>
                  /\ BasicChecksPassed
                  /\ DecodesAsOpenApiDocument(vcontent.content.doc))
    /\ [][(vpc' = "schema" \/ vpc = "schema") => (verrors = <<>> /\ BasicChecksPassed)]_vars
    /\ [][(vpc' = "done" /\ vresult'.hasDocument) => vpc = "schema"]_vars

\* the grammar validation ran on a document that passes both checks, and
\* rejected it
C22_Witness ==
    /\ vpc = "done"
    /\ BasicChecksPassed
    /\ ~vresult.isValid
    /\ ~vresult.hasDocument
    /\ ErrorPaths(vresult.errors) = {"schema"}

\* ---------------------------------------------------------------------------
\* Schema metadata: extractSchema followed by SchemaGenerator.generateSchema
\* ---------------------------------------------------------------------------

\* the metadata keywords of a schema object
SchemaKeywords ==
    {"minLength", "maxLength", "minimum", "maximum", "pattern", "default",
     "description", "example", "enum"}

\* the largest number of keywords on the component schema of a run
MaxKeywords == 2

\* the largest number of properties of the component schema of a run
MaxProps == 1

\* A schema object of the document: its type ("" when absent), the keywords it
\* declares, whether its string-valued keywords (description, pattern) hold
\* the empty string, and its properties in declaration order.
SchemaNode(type, kw, blank, props) ==
    [type |-> type, kw |-> kw, blank |-> blank, props |-> props]

Property(name, node) == [name |-> name, node |-> node]

RECURSIVE ExtractSchema(_)
\* extractSchema: the node keeps type, description (when truthy), example
\* (when not undefined), enum and the extracted properties; no other keyword
\* of SchemaKeywords is copied
ExtractSchema(schema) ==
    SchemaNode(schema.type,
               {k \in schema.kw :
                   \/ k = "description" /\ ~schema.blank
                   \/ k = "example"
                   \/ k = "enum"},
               schema.blank,
               [i \in 1..Len(schema.props) |->
                   Property(schema.props[i].name,
                            ExtractSchema(schema.props[i].node))])

\* the annotation generateAnnotations writes for a keyword
AnnotationKey(k) == IF k = "example" THEN "examples" ELSE k

\* the keywords generateAnnotations looks at, in the order of its pushes
AnnotationOrder ==
    <<"description", "example", "default", "minimum", "maximum",
      "minLength", "maxLength", "pattern">>

AnnotationPushed(schema, k) ==
    /\ k \in schema.kw
    /\ k \in {"description", "pattern"} => ~schema.blank

RECURSIVE AnnotationsFrom(_, _)
AnnotationsFrom(schema, i) ==
    IF i > Len(AnnotationOrder) THEN <<>>
    ELSE (IF AnnotationPushed(schema, AnnotationOrder[i])
          THEN <<AnnotationKey(AnnotationOrder[i])>> ELSE <<>>)
         \o AnnotationsFrom(schema, i + 1)

\* SchemaGenerator.generateAnnotations: the keys of the .annotations({...})
\* suffix, empty when there is no suffix
GenerateAnnotations(schema) == AnnotationsFrom(schema, 1)

\* An emitted declaration: the constructor, whether the enum values are
\* written (S.Literal), the annotation keys of the declaration and, for a
\* struct, the annotation keys of each property line.
Declaration(kind, literal, annotations, props) ==
    [kind |-> kind, literal |-> literal, annotations |-> annotations,
     props |-> props]

\* SchemaGenerator.generateSchema for a node without items
GenerateSchema(schema) ==
    IF schema.type = "object" /\ Len(schema.props) > 0
    THEN Declaration("Struct", FALSE, GenerateAnnotations(schema),
                     [i \in 1..Len(schema.props) |->
                         [name |-> schema.props[i].name,
                          annotations |->
                              GenerateAnnotations(schema.props[i].node)]])
    ELSE IF "enum" \in schema.kw
    THEN Declaration("Literal", TRUE, GenerateAnnotations(schema), <<>>)
    ELSE Declaration("Primitive", FALSE, GenerateAnnotations(schema), <<>>)

KeywordSets(n) == {s \in SUBSET SchemaKeywords : Cardinality(s) <= n}

\* property schemas: a string with at most one keyword, no properties
PropertyNodes ==
    {SchemaNode("string", kw, FALSE, <<>>) : kw \in KeywordSets(1)}

PropertyLists ==
    {[i \in 1..Len(nodes) |-> Property(<<"p">>, nodes[i])] :
        nodes \in SeqsUpTo(PropertyNodes, MaxProps)}

ComponentSchemas ==
    {SchemaNode(type, kw, blank, props) :
        type \in {"string", "integer", "object"},
        kw \in KeywordSets(MaxKeywords),
        blank \in BOOLEAN,
        props \in PropertyLists}

AInit ==
    /\ CallInit
    /\ cin \in ComponentSchemas

\* extractComponents hands every component schema to extractSchema
AExtract ==
    /\ cpc = "call"
    /\ cout' = <<ExtractSchema(cin)>>
    /\ cpc' = "extracted"
    /\ UNCHANGED <<cin, rvars, pvars, vvars, nvars, gvars, dvars>>

\* generateAllSchemas emits the declaration of the extracted node
AGenerate ==
    /\ cpc = "extracted"
    /\ cout' = Append(cout, GenerateSchema(cout[1]))
    /\ cpc' = "done"
    /\ UNCHANGED <<cin, rvars, pvars, vvars, nvars, gvars, dvars>>

NextAnnotate ==
    \/ AExtract
    \/ AGenerate

SpecAnnotate == AInit /\ [][NextAnnotate]_vars

\* the declaration d shows keyword k: as an annotation, or as the values of
\* S.Literal
Emitted(k, annotations, literal) ==
    \/ AnnotationKey(k) \in Range(annotations)
    \/ k = "enum" /\ literal

\* C23: every metadata keyword (minLength, maxLength, minimum, maximum,
\* pattern, default, description, example, enum) present on a component
\* schema or on one of its properties is carried by the IR node the
\* Extractor produces and appears in the emitted declaration
C23_MetadataForwarded ==
    cpc = "done" =>
       /\ \A k \in cin.kw :
             /\ k \in cout[1].kw
             /\ Emitted(k, cout[2].annotations, cout[2].literal)
       /\ \A i \in 1..Len(cin.props) : \A k \in cin.props[i].node.kw :
             /\ k \in cout[1].props[i].node.kw
             /\ i <= Len(cout[2].props)
             /\ Emitted(k, cout[2].props[i].annotations, FALSE)

\* ---------------------------------------------------------------------------
\* Schema type mapping: SchemaGenerator.getSchemaType and EndpointGenerator's
\* getSchemaType / getSchemaReference
\* ---------------------------------------------------------------------------

\* the deepest nesting of array item schemas of a run
MaxDepth == 2

\* An IR schema node as the type mapping reads it: $ref (<<>> when absent),
\* type and format ("" when absent), items (<<>> or one node), and whether it
\* has properties.
TypeNode(ref, type, format, items, hasProperties) ==
    [ref |-> ref, type |-> type, format |-> format, items |-> items,
     hasProperties |-> hasProperties]

\* A type expression: a constructor, the name of a referenced declaration and
\* the argument of S.Array.
TypeExpr(ctor, name, arg) == [ctor |-> ctor, name |-> name, arg |-> arg]

Prim(ctor) == TypeExpr(ctor, <<>>, <<>>)

\* `throw new Error(...)`
Throws == TypeExpr("throw", <<>>, <<>>)

\* ref.split("/") and the last part
LastPart(ref) == SubSeq(ref, LastIn(ref, {"/"}) + 1, Len(ref))

\* the case "string" of both mappings
StringType(format) ==
    IF format = "date-time" THEN Prim("S.DateTimeString")
    ELSE IF format = "date" THEN Prim("S.DateString")
    ELSE IF format = "uuid" THEN Prim("S.UUID")
    ELSE IF format = "email" THEN Prim("S.Email")
    ELSE Prim("S.String")

RECURSIVE SchemaGenerator_getSchemaType(_)
SchemaGenerator_getSchemaType(schema) ==
    IF schema.ref # <<>>
    THEN IF LastPart(schema.ref) = <<>> THEN Throws
         ELSE TypeExpr("name", SchemaGenerator_toPascalCase(LastPart(schema.ref)), <<>>)
    ELSE IF schema.type = "string" THEN StringType(schema.format)
    ELSE IF schema.type = "number" THEN Prim("S.Number")
    ELSE IF schema.type = "integer" THEN Prim("S.Int")
    ELSE IF schema.type = "boolean" THEN Prim("S.Boolean")
    ELSE IF schema.type = "array"
    THEN IF schema.items # <<>>
         THEN TypeExpr("S.Array", <<>>,
                       <<SchemaGenerator_getSchemaType(schema.items[1])>>)
         ELSE TypeExpr("S.Array", <<>>, <<Prim("S.Unknown")>>)
    ELSE IF schema.type = "object"
    THEN IF schema.hasProperties THEN Prim("S.Struct")
         ELSE Prim("S.Record")
    ELSE Prim("S.Unknown")

\* EndpointGenerator.getSchemaType: no case for array or object, and
\* S.String as the default
EndpointGenerator_getSchemaType(schema) ==
    IF schema.type = "string" THEN StringType(schema.format)
    ELSE IF schema.type = "number" THEN Prim("S.Number")
    ELSE IF schema.type = "integer" THEN Prim("S.Int")
    ELSE IF schema.type = "boolean" THEN Prim("S.Boolean")
    ELSE Prim("S.String")

SchemasDot == <<"S", "c", "h", "e", "m", "a", "s", ".">>

\* EndpointGenerator.getSchemaReference
EndpointGenerator_getSchemaReference(schema) ==
    IF schema.ref # <<>>
    THEN TypeExpr("name",
                  SchemasDot \o EndpointGenerator_toPascalCase(LastPart(schema.ref)),
                  <<>>)
    ELSE EndpointGenerator_getSchemaType(schema)

SchemaTypes == {"", "string", "number", "integer", "boolean", "array", "object", "null"}

SchemaFormats == {"", "date-time", "date", "uuid", "email", "int32"}

ScalarNodes ==
    {TypeNode(<<>>, type, format, <<>>, FALSE) :
        type \in SchemaTypes \ {"array", "object"}, format \in SchemaFormats}

ItemLeaves ==
    {TypeNode(<<>>, type, "", <<>>, FALSE) : type \in {"", "string", "integer", "number"}}

\* arrays nested at most d deep over ItemLeaves, items absent included
RECURSIVE ArrayNodes(_)
ArrayNodes(d) ==
    IF d = 0 THEN {TypeNode(<<>>, "array", "", <<>>, FALSE)}
    ELSE LET inner == ArrayNodes(d - 1) \cup ItemLeaves
         IN  ArrayNodes(d - 1) \cup
             {TypeNode(<<>>, "array", "", <<n>>, FALSE) : n \in inner}

R_schemas == <<"#", "/", "c", "o", "m", "p", "o", "n", "e", "n", "t", "s", "/", "s", "c", "h", "e", "m", "a", "s", "/">>

TypeNodes ==
    ScalarNodes
    \cup ArrayNodes(MaxDepth)
    \cup {TypeNode(<<>>, "object", "", <<>>, hp) : hp \in BOOLEAN}
    \cup {TypeNode(ref, type, "", <<>>, FALSE) :
            ref \in {R_user, R_schemas}, type \in {"", "string"}}

TInit ==
    /\ CallInit
    /\ cin \in TypeNodes

\* the mapping of a component schema or a property
TSchema ==
    /\ cpc = "call"
    /\ cout' = <<SchemaGenerator_getSchemaType(cin)>>
    /\ cpc' = "schema"
    /\ UNCHANGED <<cin, rvars, pvars, vvars, nvars, gvars, dvars>>

\* the mapping of a parameter's schema
TParameter ==
    /\ cpc = "schema"
    /\ cout' = Append(cout, EndpointGenerator_getSchemaType(cin))
    /\ cpc' = "parameter"
    /\ UNCHANGED <<cin, rvars, pvars, vvars, nvars, gvars, dvars>>

\* the mapping of a response's or a payload's schema
TReference ==
    /\ cpc = "parameter"
    /\ cout' = Append(cout, EndpointGenerator_getSchemaReference(cin))
    /\ cpc' = "done"
    /\ UNCHANGED <<cin, rvars, pvars, vvars, nvars, gvars, dvars>>

NextTypes ==
    \/ TSchema
    \/ TParameter
    \/ TReference

SpecTypes == TInit /\ [][NextTypes]_vars

\* the type expression the mapping is described to give for a node without $ref
RECURSIVE DescribedType(_)
DescribedType(schema) ==
    CASE schema.type = "integer" -> Prim("S.Int")
      [] schema.type = "number"  -> Prim("S.Number")
      [] schema.type = "boolean" -> Prim("S.Boolean")
      [] schema.type = "string"  -> StringType(schema.format)
      [] schema.type = "array"   ->
            TypeExpr("S.Array", <<>>,
                     <<IF schema.items = <<>> THEN Prim("S.Unknown")
                       ELSE DescribedType(schema.items[1])>>)
      [] schema.type = "object"  ->
            IF schema.hasProperties THEN Prim("S.Struct") ELSE Prim("S.Record")
      [] OTHER -> Prim("S.Unknown")

\* C26: the schema type mapping is one function of the IR node in every
\* emission position: integer and number map to distinct primitives, string
\* specialises on the formats date-time, date, uuid and email, array maps
\* recursively over items (unknown items when absent), an unrecognised or
\* missing type maps to the unknown fallback, and the mappings
\* EndpointGenerator uses for parameters, responses and payloads give the
\* same expression as SchemaGenerator.getSchemaType for every node
C26_OneTypeMapping ==
    cpc = "done" =>
       /\ cin.ref = <<>> => cout[1] = DescribedType(cin)
       /\ cout[2] = cout[1]
       /\ cout[3] = cout[1]

\* ---------------------------------------------------------------------------
\* Responses of an operation: extractOperation / extractResponse followed by
\* EndpointGenerator.getSuccessResponse and getErrorResponses
\* ---------------------------------------------------------------------------

\* the largest number of responses of the operation of a run
MaxResponses == 2

\* A key of the responses object: its text, whether the text is a canonical
\* integer index, and the integer it then denotes.
StatusKey(text, isIndex, n) == [text |-> text, isIndex |-> isIndex, n |-> n]

StatusKeys ==
    {StatusKey("200", TRUE, 200), StatusKey("201", TRUE, 201),
     StatusKey("302", TRUE, 302), StatusKey("404", TRUE, 404),
     StatusKey("500", TRUE, 500), StatusKey("default", FALSE, 0)}

\* a JavaScript number as far as status codes need it: NaN or an integer
NaN == [nan |-> TRUE, n |-> 0]
Num(n) == [nan |-> FALSE, n |-> n]

\* a >= k and a < k for a number a and an integer k: false for NaN
NumGe(a, k) == ~a.nan /\ a.n >= k
NumLt(a, k) == ~a.nan /\ a.n < k

\* Number.parseInt(statusCode, 10) on the keys of StatusKeys
ParseStatus(key) == IF key.isIndex THEN Num(key.n) ELSE NaN

\* a media type entry: its name and its schema (<<>> or one node; a node with
\* a non-empty ref is a {$ref} object)
MediaType(mediaType, schema) == [mediaType |-> mediaType, schema |-> schema]

\* a response entry of the document, and a response of the IR
DocResponse(key, content) == [key |-> key, content |-> content]
IrResponse(statusCode, schema, content) ==
    [statusCode |-> statusCode, schema |-> schema, content |-> content]

\* the entries of seq whose key is an integer index, by ascending key
RECURSIVE IndexEntriesAscending(_)
IndexEntriesAscending(S) ==
    IF S = {} THEN <<>>
    ELSE LET least == CHOOSE e \in S : \A f \in S : e.key.n <= f.key.n
         IN  <<least>> \o IndexEntriesAscending(S \ {least})

IsIndexEntry(e) == e.key.isIndex
IsNameEntry(e) == ~e.key.isIndex

\* Object.entries of an object whose properties were created in the order of
\* seq: integer-index keys first, in ascending numeric order, then the other
\* keys in creation order
ObjectEntries(seq) ==
    IndexEntriesAscending({e \in Range(seq) : IsIndexEntry(e)})
    \o SelectSeq(seq, IsNameEntry)

\* the schema handed to extractSchema for a media type: undefined for a
\* {$ref} object; extractSchema keeps type and format
ExtractMediaSchema(schema) ==
    IF schema = <<>> \/ schema[1].ref # <<>> THEN <<>> ELSE schema

\* extractResponse: the primary schema field is never set
ExtractResponse(entry) ==
    IrResponse(ParseStatus(entry.key), <<>>,
               [i \in 1..Len(entry.content) |->
                   MediaType(entry.content[i].mediaType,
                             ExtractMediaSchema(entry.content[i].schema))])

\* the responses of extractOperation (no entry of the universe is a {$ref})
ExtractResponses(responses) ==
    LET entries == ObjectEntries(responses)
    IN  [i \in 1..Len(entries) |-> ExtractResponse(entries[i])]

\* array.find: <<>> or the first element that satisfies Test
FindFirst(seq, Test(_)) ==
    LET found == SelectSeq(seq, Test) IN IF found = <<>> THEN <<>> ELSE <<Head(found)>>

IsJsonContent(c) == c.mediaType = "application/json"

\* r.schema || r.content.find(c => c.mediaType === "application/json")?.schema
ResponseSchema(r) ==
    IF r.schema # <<>> THEN r.schema
    ELSE LET json == FindFirst(r.content, IsJsonContent)
         IN  IF json = <<>> THEN <<>> ELSE json[1].schema

IsSuccessStatus(r) == NumGe(r.statusCode, 200) /\ NumLt(r.statusCode, 300)
IsErrorStatus(r) == NumGe(r.statusCode, 400)

\* getSuccessResponse: <<>> for null
GetSuccessResponse(responses) ==
    LET successResponse == FindFirst(responses, IsSuccessStatus)
    IN  IF successResponse = <<>> THEN <<>>
        ELSE IF ResponseSchema(successResponse[1]) = <<>> THEN <<>>
        ELSE <<EndpointGenerator_getSchemaReference(ResponseSchema(successResponse[1])[1])>>

\* HttpApiError.make('<status>', <schemaRef>)
ErrorReference(status, schemaRef) == [status |-> status, schemaRef |-> schemaRef]

GetErrorResponses(responses) ==
    LET errors == SelectSeq(responses, IsErrorStatus)
    IN  [i \in 1..Len(errors) |->
            ErrorReference(errors[i].statusCode.n,
                           IF ResponseSchema(errors[i]) = <<>> THEN Prim("S.String")
                           ELSE EndpointGenerator_getSchemaReference(ResponseSchema(errors[i])[1]))]

T_int == TypeNode(<<>>, "integer", "", <<>>, FALSE)
T_str == TypeNode(<<>>, "string", "", <<>>, FALSE)
T_ref == TypeNode(R_user, "", "", <<>>, FALSE)

ContentLists ==
    {<<>>, <<MediaType("text/plain", <<>>)>>, <<MediaType("text/plain", <<T_str>>)>>,
     <<MediaType("text/plain", <<T_str>>), MediaType("application/json", <<T_int>>)>>}
    \cup {<<MediaType("application/json", s)>> : s \in {<<>>, <<T_int>>, <<T_ref>>}}

DocResponses == {DocResponse(k, c) : k \in StatusKeys, c \in ContentLists}

\* the responses objects: at most MaxResponses entries with distinct keys, in
\* the order in which the document declares them
ResponseObjects ==
    {rs \in SeqsUpTo(DocResponses, MaxResponses) :
        \A i, j \in 1..Len(rs) : i # j => rs[i].key # rs[j].key}

QInit ==
    /\ CallInit
    /\ cin \in ResponseObjects

QExtract ==
    /\ cpc = "call"
    /\ cout' = <<ExtractResponses(cin)>>
    /\ cpc' = "extracted"
    /\ UNCHANGED <<cin, rvars, pvars, vvars, nvars, gvars, dvars>>

\* the two response steps of generateEndpoint
QEndpoint ==
    /\ cpc = "extracted"
    /\ cout' = Append(cout, [success |-> GetSuccessResponse(cout[1]),
                             errors |-> GetErrorResponses(cout[1])])
    /\ cpc' = "done"
    /\ UNCHANGED <<cin, rvars, pvars, vvars, nvars, gvars, dvars>>

NextResponses ==
    \/ QExtract
    \/ QEndpoint

SpecResponses == QInit /\ [][NextResponses]_vars

HasSchema(c) == c.schema # <<>>

\* the schema of a declared response: that of its application/json content
\* when it has one, otherwise that of its first content with a schema
PreferredSchema(entry) ==
    LET json == SelectSeq(entry.content, LAMBDA c : IsJsonContent(c) /\ HasSchema(c))
        any  == SelectSeq(entry.content, HasSchema)
    IN  IF json # <<>> THEN json[1].schema
        ELSE IF any # <<>> THEN any[1].schema
        ELSE <<>>

DeclaredSuccess(e) == e.key.isIndex /\ e.key.n >= 200 /\ e.key.n <= 299
DeclaredError(e) == e.key.isIndex /\ e.key.n >= 400

\* C24: the success type comes from the first response in declaration order
\* with a status code in 200..299, preferring its application/json content
\* schema over any other schema of the response, and there is none when no
\* such response or no schema exists; every response with a status code of
\* 400 or above yields exactly one error reference, in declaration order,
\* paired with its schema or the string fallback; other responses yield
\* neither
C24_ResponseTypes ==
    cpc = "done" =>
       LET first2xx == SelectSeq(cin, DeclaredSuccess)
           errors   == SelectSeq(cin, DeclaredError)
       IN  /\ cout[2].success =
                 IF first2xx = <<>> \/ PreferredSchema(first2xx[1]) = <<>> THEN <<>>
                 ELSE <<EndpointGenerator_getSchemaReference(PreferredSchema(first2xx[1])[1])>>
           /\ Len(cout[2].errors) = Len(errors)
           /\ \A i \in 1..Len(errors) :
                 /\ cout[2].errors[i].status = errors[i].key.n
                 /\ cout[2].errors[i].schemaRef =
                       IF PreferredSchema(errors[i]) = <<>> THEN Prim("S.String")
                       ELSE EndpointGenerator_getSchemaReference(PreferredSchema(errors[i])[1])

\* ---------------------------------------------------------------------------
\* Endpoint declarations: extractPath, groupOperationsByTag and
\* EndpointGenerator.generateApiGroup
\* ---------------------------------------------------------------------------

\* the largest number of operations of the path item of a run
MaxMethods == 2

\* method.toLowerCase() on the method names of the IR and on a name that is
\* no HTTP method
ToLowerCaseMethod ==
    [GET |-> "get", PUT |-> "put", POST |-> "post", DELETE |-> "delete",
     OPTIONS |-> "options", HEAD |-> "head", PATCH |-> "patch", TRACE |-> "trace",
     UNKNOWN |-> "unknown"]

methodMap ==
    [get |-> "get", post |-> "post", put |-> "put", patch |-> "patch",
     delete |-> "del", head |-> "head", options |-> "options"]

\* getHttpMethod: methodMap[method.toLowerCase()] || "get"
GetHttpMethod(method) ==
    IF ToLowerCaseMethod[method] \in DOMAIN methodMap
    THEN methodMap[ToLowerCaseMethod[method]]
    ELSE "get"

\* generateEndpoint, as far as the builder and the path template:
\* HttpApiEndpoint.<methodName>('<name>', '<path>')
GenerateEndpoint(entry) ==
    [methodName |-> GetHttpMethod(entry.operation.method), path |-> entry.path]

\* generateApiGroup: one endpoint per operation, in order
GenerateApiGroup(operations) ==
    [i \in 1..Len(operations) |-> GenerateEndpoint(operations[i])]

\* the names of the keys of a path item that hold operations
DeclarableMethods == {httpMethods[i] : i \in 1..Len(httpMethods)}

\* path items with at most MaxMethods operations, in any declared order, all
\* tagged "users"
MethodPathItems ==
    {PathItem(path, <<>>,
              [i \in 1..Len(ms) |-> Operation(ms[i], TRUE, <<T_users>>, <<>>)]) :
        path \in {"/users", "/users/{id}"},
        ms \in {q \in SeqsUpTo(DeclarableMethods, MaxMethods) :
                   /\ q # <<>>
                   /\ \A i, j \in 1..Len(q) : i # j => q[i] # q[j]}}

MInit ==
    /\ CallInit
    /\ cin \in MethodPathItems

\* extractApiData on the document whose only path item is cin
MExtract ==
    /\ cpc = "call"
    /\ cout' = <<[NoApiData EXCEPT !.paths = <<ExtractPath(cin)>>]>>
    /\ cpc' = "extracted"
    /\ UNCHANGED <<cin, rvars, pvars, vvars, nvars, gvars, dvars>>

\* groupOperationsByTag, then generateApiGroup for every group
MGenerate ==
    /\ cpc = "extracted"
    /\ cout' = Append(cout,
                      LET groups == GroupOperationsByTag(cout[1])
                      IN  [g \in 1..Len(groups) |->
                              [tag       |-> groups[g].tag,
                               endpoints |-> GenerateApiGroup(groups[g].operations)]])
    /\ cpc' = "done"
    /\ UNCHANGED <<cin, rvars, pvars, vvars, nvars, gvars, dvars>>

NextEndpoints ==
    \/ MExtract
    \/ MGenerate

SpecEndpoints == MInit /\ [][NextEndpoints]_vars

\* the builder name of a declared method: the method itself, del for delete
BuilderOf(method) == IF method = "delete" THEN "del" ELSE method

\* C25: the artifact of a group holds exactly one endpoint declaration per
\* operation of the group, each with the HTTP method and the path template of
\* its own operation, for every method the Extractor extracts (get, put,
\* post, delete, options, head, patch, trace); delete is rendered as del, and
\* a method name that is not recognised falls back to get
C25_EndpointPerOperation ==
    /\ GetHttpMethod("UNKNOWN") = "get"
    /\ cpc = "done" =>
          /\ Len(cout[2]) = 1
          /\ Len(cout[2][1].endpoints) = Len(cin.operations)
          /\ \A i \in 1..Len(cin.operations) :
                Cardinality({k \in 1..Len(cout[2][1].endpoints) :
                                cout[2][1].endpoints[k] =
                                   [methodName |-> BuilderOf(cin.operations[i].method),
                                    path |-> cin.path]}) = 1

\* ---------------------------------------------------------------------------
\* Request bodies: extractRequestBody
\* ---------------------------------------------------------------------------

\* the largest number of media types of the request body of a run
MaxMedia == 2

BodyMediaTypes == {"application/json", "text/plain", "application/xml"}

\* what the schema entry of a media type can hold: nothing, null, an inline
\* schema object, a {$ref} object, or a value that is no object
SchemaEntryKinds == {"absent", "null", "inline", "ref", "string"}

BodyMedia(mediaType, schema) == [mediaType |-> mediaType, schema |-> schema]

\* mediaTypeObj.schema && !("$ref" in mediaTypeObj.schema): the `in` operator
\* throws a TypeError when its right operand is a non-empty string
SchemaEntryThrows(schema) == schema = "string"

\* extractSchema(<the expression above> ? mediaTypeObj.schema : undefined):
\* <<>> for undefined, the schema object otherwise
ExtractBodySchema(schema) ==
    IF schema = "inline" THEN <<"inline">> ELSE <<>>

\* extractRequestBody inside the try block of extractApiData: the content
\* records in the order of Object.entries(requestBody.content), or the
\* failure the catch turns a throw into
ExtractRequestBody(content) ==
    IF \E i \in 1..Len(content) : SchemaEntryThrows(content[i].schema)
    THEN Left(Err("FailedToExtractApiData", ""))
    ELSE Right([i \in 1..Len(content) |->
                   BodyMedia(content[i].mediaType,
                             ExtractBodySchema(content[i].schema))])

\* the content objects: at most MaxMedia media types with distinct names, in
\* declaration order
BodyContents ==
    {c \in SeqsUpTo({BodyMedia(m, k) : m \in BodyMediaTypes, k \in SchemaEntryKinds},
                    MaxMedia) :
        \A i, j \in 1..Len(c) : i # j => c[i].mediaType # c[j].mediaType}

YInit ==
    /\ CallInit
    /\ cin \in BodyContents

YExtract ==
    /\ cpc = "call"
    /\ cout' = ExtractRequestBody(cin)
    /\ cpc' = "done"
    /\ UNCHANGED <<cin, rvars, pvars, vvars, nvars, gvars, dvars>>

NextBody == YExtract

SpecBody == YInit /\ [][NextBody]_vars

\* C27: extractRequestBody yields exactly one content record per media type,
\* in declaration order; the record carries a schema whenever the schema of
\* the media type is an inline schema or a reference (kept as a reference),
\* a media type whose schema cannot be resolved yields a record without
\* schema, and the extraction never fails because of a schema
C27_RequestBodyContent ==
    cpc = "done" =>
       /\ cout.tag = "Right"
       /\ Len(cout.value) = Len(cin)
       /\ \A i \in 1..Len(cin) :
             /\ cout.value[i].mediaType = cin[i].mediaType
             /\ cin[i].schema \in {"inline", "ref"} =>
                   cout.value[i].schema = <<cin[i].schema>>
             /\ cin[i].schema \in {"absent", "null"} =>
                   cout.value[i].schema = <<>>

(***************************************************************************)
(* Properties of the ParseResult                                           *)
(***************************************************************************)

\* C28: in every ParseResult isValid is true exactly when validationErrors is
\* empty; under skipValidation the validation stage never runs, and a
\* ParseResult reports isValid true with no validation errors while the
\* document it hands on is the raw content of the file
C28_SkipValidation ==
    \A i \in PipeIndices :
       /\ popts.skipValidation => "validation" \notin Attempted(i)
       /\ (pipe[i].pc = "done" /\ pipe[i].result.tag = "Right") =>
             /\ pipe[i].result.value.isValid
                   <=> (Len(pipe[i].result.value.validationErrors) = 0)
             /\ popts.skipValidation =>
                   /\ pipe[i].result.value.isValid
                   /\ pipe[i].result.value.validationErrors = <<>>
                   /\ pipe[i].result.value.originalDocument
                          = pipe[i].fileContent.content.doc

\* under skipValidation a file that the Validator would reject has been
\* parsed to a ParseResult that reports it as valid
C28_Witness ==
    \E i \in PipeIndices :
       /\ popts.skipValidation
       /\ pipe[i].pc = "done"
       /\ pipe[i].result.tag = "Right"
       /\ pipe[i].result.value.isValid
       /\ ValidateOpenApiDocumentStrict(pipe[i].fileContent).tag = "Left"

\* ---------------------------------------------------------------------------
\* ErrorUtils.fromParseError (utils/error-types.ts) on the ParseErrors of
\* parseOpenApiFile
\* ---------------------------------------------------------------------------

\* the substrings fromParseError looks for in the message of a ParseError
Needles == {"does not exist", "format", "extension", "version"}

F_plainNoVersion == SpecFile("spec.json", D_noVersion)
F_versionedPath  == SpecFile("api-version2.json", D_noPaths)
F_formatsPath    == File("formats/broken.json", TRUE, E_json, FALSE, TRUE, D_valid)

ErrorFiles ==
    {F_missing, F_text, F_badSyntax, F_array, F_valid, F_v2, F_noOpenapi, F_noInfo,
     F_noVersion, F_noPaths, F_noResponses, F_extRemote,
     F_plainNoVersion, F_versionedPath, F_formatsPath}

\* the needles that occur in the path of a file of ErrorFiles
PathNeedles(path) ==
    IF path \in {"api-version2.json", "no-version.json"} THEN {"version"}
    ELSE IF path = "formats/broken.json" THEN {"format"}
    ELSE {}

\* the needles in the path and the message of the first validation error:
\* "info.version" with "Missing or invalid 'version' in info object", and
\* "openapi" with "Missing or invalid OpenAPI version field" or "Unsupported
\* OpenAPI version: ..."; the message of a grammar error is the text of the
\* schema library
ValidationNeedles(at, lib) ==
    IF at \in {"info.version", "openapi"} THEN {"version"}
    ELSE IF at = "schema" THEN lib
    ELSE {}

\* the needles in the message of a ParseError, `<prefix>: ${cause.message}`:
\* no prefix holds one; the causes are
\*   OpenAPI file does not exist: <path>
\*   Unsupported file format. Expected .json, .yaml, or .yml, got: <ext>
\*   Failed to parse JSON file '<path>': <text of the JSON or YAML parser>
\*   Invalid OpenAPI file structure. Expected object, got <type> in file: <path>
\*   OpenAPI validation failed in file '<path>' at <path of the error>: <message>
MessageNeedles(parseError, lib) ==
    LET kind == parseError.cause.kind
        path == PathNeedles(parseError.filePath)
    IN  IF kind = "FileDoesNotExist" THEN {"does not exist"} \cup path
        ELSE IF kind = "UnsupportedFileFormat" THEN {"format"}
        ELSE IF kind = "FailedToParse" THEN path \cup lib
        ELSE IF kind = "InvalidFileStructure" THEN path
        ELSE IF kind = "OpenApiValidationFailed"
        THEN path \cup ValidationNeedles(parseError.cause.at, lib)
        ELSE IF kind = "DocumentUndefined" THEN path
        ELSE {}

\* parseError.message.includes(needle)
MessageIncludes(parseError, lib, needle) == needle \in MessageNeedles(parseError, lib)

\* a specialised error: its class and the filePath and stage its constructor
\* passes to OpenApiParseError
OpenApiError(class, filePath, stage) ==
    [class |-> class, filePath |-> filePath, stage |-> stage]

FromParseError(parseError, lib) ==
    IF parseError.stage = "reading"
    THEN IF MessageIncludes(parseError, lib, "does not exist")
         THEN OpenApiError("OpenApiFileNotFoundError", parseError.filePath, "reading")
         ELSE IF \/ MessageIncludes(parseError, lib, "format")
                 \/ MessageIncludes(parseError, lib, "extension")
         THEN OpenApiError("OpenApiInvalidFormatError", parseError.filePath, "reading")
         ELSE OpenApiError("OpenApiParseError", parseError.filePath, parseError.stage)
    ELSE IF parseError.stage = "validation"
    THEN IF MessageIncludes(parseError, lib, "version")
         THEN OpenApiError("OpenApiUnsupportedVersionError", parseError.filePath, "validation")
         ELSE OpenApiError("OpenApiValidationError", parseError.filePath, "validation")
    ELSE IF parseError.stage = "resolution"
    THEN OpenApiError("OpenApiReferenceResolutionError", parseError.filePath, "resolution")
    ELSE IF parseError.stage = "extraction"
    THEN OpenApiError("OpenApiExtractionError", parseError.filePath, "extraction")
    ELSE OpenApiError("OpenApiParseError", parseError.filePath, parseError.stage)

\* the ParseErrors parseOpenApiFile can fail with on a file, under the default
\* options
ExtractionErrorsOf(file, resolved) ==
    IF resolved.tag = "Left"
    THEN {ParseError(file.path, "resolution", Err(resolved.error, ""))}
    ELSE IF ExtractApiData(resolved.value.resolved).tag = "Left"
    THEN {ParseError(file.path, "extraction", ExtractApiData(resolved.value.resolved).error)}
    ELSE {}

ResolutionErrorsOf(file, document) ==
    UNION {ExtractionErrorsOf(file, resolved) :
              resolved \in ResolveOutcomes(document, ResolutionOptions(defaultParseOptions))}

ValidationErrorsOf(file, fileContent) ==
    IF ValidateOpenApiDocumentStrict(fileContent).tag = "Left"
    THEN {ParseError(file.path, "validation", ValidateOpenApiDocumentStrict(fileContent).error)}
    ELSE ResolutionErrorsOf(file, ValidateOpenApiDocumentStrict(fileContent).value)

ParseErrorsOf(file) ==
    IF ReadAndValidateOpenApiFile(file).tag = "Left"
    THEN {ParseError(file.path, "reading", ReadAndValidateOpenApiFile(file).error)}
    ELSE ValidationErrorsOf(file, ReadAndValidateOpenApiFile(file).value)

\* a file, and the needles in the texts of the libraries (the JSON and YAML
\* parsers, the schema decoder), which quote the content of the file
EInit ==
    /\ CallInit
    /\ cin \in [file : ErrorFiles, lib : SUBSET Needles]

\* parseOpenApiFile fails on the file
EParse ==
    /\ cpc = "call"
    /\ \E parseError \in ParseErrorsOf(cin.file) : cout' = <<parseError>>
    /\ cpc' = "failed"
    /\ UNCHANGED <<cin, rvars, pvars, vvars, nvars, gvars, dvars>>

EConvert ==
    /\ cpc = "failed"
    /\ cout' = Append(cout, FromParseError(cout[1], cin.lib))
    /\ cpc' = "done"
    /\ UNCHANGED <<cin, rvars, pvars, vvars, nvars, gvars, dvars>>

NextErrors ==
    \/ EParse
    \/ EConvert

SpecErrors == EInit /\ [][NextErrors]_vars

\* the version-compatibility check rejects the content of the file
VersionCheckFails(file) == ValidateOpenApiVersion(FileContent(file).content).tag = "Left"

\* C29: fromParseError keeps the filePath and the stage of the ParseError, and
\* the class reflects the failure: OpenApiUnsupportedVersionError only when
\* the version-compatibility check failed (never for a missing or mistyped
\* field such as info.version), OpenApiFileNotFoundError only for a file that
\* does not exist
C29_SpecialisedError ==
    cpc = "done" =>
       /\ cout[2].filePath = cout[1].filePath
       /\ cout[2].stage = cout[1].stage
       /\ cout[2].class = "OpenApiUnsupportedVersionError" =>
             /\ cout[1].stage = "validation"
             /\ VersionCheckFails(cin.file)
       /\ cout[2].class = "OpenApiFileNotFoundError" => ~cin.file.exists

(***************************************************************************)
(* Properties of the order of the writes of HttpApiGenerator.generate      *)
(***************************************************************************)

\* the names of the files a complete run writes, in order
ExpectedWrites(apiData) ==
    LET tags == GroupTags(apiData)
    IN  <<N_schemas_ts>>
        \o [g \in 1..Len(tags) |-> GetApiGroupFileName(tags[g])]
        \o <<N_index_ts>>

IsPrefix(s, t) == Len(s) <= Len(t) /\ s = SubSeq(t, 1, Len(s))

\* the files the index.ts of the directory imports from, as .ts names
IndexImports ==
    UNION {{ReplaceFirst(e.content.imports[k].from, N_dot_js, N_dot_ts) :
               k \in 1..Len(e.content.imports)} :
              e \in {f \in gdir : f.name = N_index_ts}}

\* C30: generate writes in a fixed order: the output directory is created
\* first, then schemas.ts, then the group artifacts in group order, then
\* index.ts last; a failed step stops the run, so index.ts is written only
\* after schemas.ts and every group artifact it imports have been written
C30_WriteOrder ==
    /\ [](gpc # "off" =>
            LET expected == ExpectedWrites(gdata)
            IN  /\ IsPrefix(glog, expected)
                /\ gpc = "mkdir" => glog = <<>>
                /\ gpc = "finished" <=> (glog = expected)
                /\ N_index_ts \in Range(glog) =>
                      /\ glog[1] = N_schemas_ts
                      /\ glog[Len(glog)] = N_index_ts
                      /\ IndexImports \subseteq Range(SubSeq(glog, 1, Len(glog) - 1)))
    /\ [][glog' # glog => (gpc \in {"schemas", "groups"} \/ glog' = <<>>)]_vars
    /\ [][gpc = "failed" => gpc' = "failed" /\ glog' = glog /\ gdir' = gdir]_vars

\* a run over more than one group has written index.ts, after schemas.ts and
\* the artifacts of all groups
C30_Witness ==
    /\ gpc = "finished"
    /\ Len(ggroups) >= 2
    /\ Len(glog) = Len(ggroups) + 2
    /\ glog[Len(glog)] = N_index_ts

=============================================================================
